---- MODULE Spec2Model ----
(***************************************************************************)
(* A model of openedx-user-groups: the criterion types and their           *)
(* construction-time validation (criteria.py, criteria_types.py,           *)
(* manager.py), the group creation and membership reconciliation API       *)
(* (api.py), the UserGroup model (models.py) and the event impact          *)
(* analyzer (tasks.py).                                                    *)
(*                                                                         *)
(* Database tables are the variables scopes, groups, criteria and          *)
(* memberships.  Every API call runs inside transaction.atomic(): it is    *)
(* modelled as a pure operator from a database value to a result record    *)
(* [ok, error, db, ...]; on an exception the result carries the database   *)
(* the call started from (the rollback).                                   *)
(***************************************************************************)
EXTENDS Integers, Sequences, FiniteSets, TLC

(***************************************************************************)
(* Bounds of the model.                                                    *)
(***************************************************************************)
NumUsers == 2
MaxGroups == 2
MaxCollectionGroups == 3
MaxCollections == 1
MaxClock == 1
MaxCriteria == 2
TicksPerDay == 2
NumWorkers == 2
MaxCalls == 1

Users == 1..NumUsers
Workers == 1..NumWorkers
GroupIds == 1..MaxGroups
Times == 0..MaxClock

(***************************************************************************)
(* Python values.  None is modelled per field type: a string field holds   *)
(* NoneStr, a datetime field holds NoneTime.  A datetime is a number of    *)
(* ticks on the model clock; a day lasts TicksPerDay ticks.                *)
(***************************************************************************)
NoneStr == "<None>"
NoneTime == 0 - 1

Range(s) == {s[i] : i \in DOMAIN s}

EmptyDict == <<>>

(***************************************************************************)
(* criteria.py: ComparisonOperator                                         *)
(***************************************************************************)
ComparisonOperator ==
    {"=", "!=", ">", ">=", "<", "<=", "contains", "not_contains",
     "in", "not_in", "exists", "not_exists"}

(***************************************************************************)
(* manager.py: CriterionManager._criterion_registry, name -> class         *)
(***************************************************************************)
_criterion_registry ==
    [t \in {"last_login", "course_enrollment", "manual", "enrollment_mode",
            "enrolled_with_specific_mode", "user_staff_status"} |->
        CASE t = "last_login" -> "LastLoginCriterion"
          [] t = "course_enrollment" -> "CourseEnrollmentCriterion"
          [] t = "manual" -> "ManualCriterion"
          [] t = "enrollment_mode" -> "EnrollmentModeCriterion"
          [] t = "enrolled_with_specific_mode" -> "EnrollmentModeCriterion"
          [] t = "user_staff_status" -> "UserStaffStatusCriterion"]

NoClass == "None"

\* CriterionManager.get_criterion_class_by_type: the class, or None for a
\* name the registry does not hold.
get_criterion_class_by_type(criterion_type) ==
    IF criterion_type \in DOMAIN _criterion_registry
    THEN _criterion_registry[criterion_type]
    ELSE NoClass

(***************************************************************************)
(* criteria_types.py: the class attributes of the concrete criterion types *)
(***************************************************************************)
\* cls.criterion_type
ClassCriterionType(cls) ==
    CASE cls = "LastLoginCriterion" -> "last_login"
      [] cls = "CourseEnrollmentCriterion" -> "course_enrollment"
      [] cls = "ManualCriterion" -> "manual"
      [] cls = "EnrollmentModeCriterion" -> "enrollment_mode"
      [] cls = "UserStaffStatusCriterion" -> "user_staff_status"

\* cls.supported_operators; the empty set stands for None (the base class
\* default, kept by UserStaffStatusCriterion).
supported_operators(cls) ==
    CASE cls = "LastLoginCriterion" -> {"=", "!=", ">", ">=", "<", "<="}
      [] cls = "CourseEnrollmentCriterion" ->
            {"in", "not_in", "=", "!=", ">", ">=", "<", "<="}
      [] cls = "ManualCriterion" -> {"in", "not_in"}
      [] cls = "EnrollmentModeCriterion" -> {"=", "!="}
      [] cls = "UserStaffStatusCriterion" -> {}

\* A faulty variant in which every class keeps the default scopes.
AllScopesMutant(cls) == {"course", "organization", "instance"}

\* cls.scopes
scopes_of(cls) ==
    CASE cls \in {"CourseEnrollmentCriterion", "EnrollmentModeCriterion"} ->
            {"course"}
      [] OTHER -> {"course", "organization", "instance"}

\* cls.updated_by_events (event types); ManualCriterion declares none.
updated_by_events(cls) ==
    CASE cls = "CourseEnrollmentCriterion" ->
            <<"COURSE_ENROLLMENT_CREATED", "COURSE_ENROLLMENT_CHANGED">>
      [] cls = "LastLoginCriterion" -> <<"SESSION_LOGIN_COMPLETED">>
      [] cls = "EnrollmentModeCriterion" ->
            <<"COURSE_ENROLLMENT_CREATED", "COURSE_ENROLLMENT_CHANGED">>
      [] cls = "UserStaffStatusCriterion" -> <<"USER_STAFF_STATUS_CHANGED">>
      [] OTHER -> <<>>

\* BaseCriterionType.__subclasses__(), in definition order.
Subclasses ==
    <<"ManualCriterion", "CourseEnrollmentCriterion", "LastLoginCriterion",
      "EnrollmentModeCriterion", "UserStaffStatusCriterion">>

(***************************************************************************)
(* ConfigModel of a raw dict: the pydantic validation.  Unknown keys       *)
(* are ignored, optional fields default to None, and the result holds      *)
(* exactly the model's fields.                                             *)
(***************************************************************************)
Has(d, k) == k \in DOMAIN d

\* A faulty validation that checks the presence of the required fields and
\* not their constraints (min_length=1, ge=0).
PresenceOnlyMutant(cls, config) ==
    CASE cls = "ManualCriterion" -> Has(config, "usernames_or_emails")
      [] cls = "LastLoginCriterion" -> Has(config, "days")
      [] cls = "CourseEnrollmentCriterion" -> TRUE
      [] cls = "EnrollmentModeCriterion" -> Has(config, "mode")
      [] cls = "UserStaffStatusCriterion" -> Has(config, "is_staff")

ConfigValid(cls, config) ==
    CASE cls = "ManualCriterion" ->
            /\ Has(config, "usernames_or_emails")
            /\ Len(config["usernames_or_emails"]) >= 1
      [] cls = "LastLoginCriterion" ->
            /\ Has(config, "days")
            /\ config["days"] >= 0
      [] cls = "CourseEnrollmentCriterion" -> TRUE
      [] cls = "EnrollmentModeCriterion" -> Has(config, "mode")
      [] cls = "UserStaffStatusCriterion" -> Has(config, "is_staff")

ConfigModel(cls, config) ==
    CASE cls = "ManualCriterion" ->
            [usernames_or_emails |-> config["usernames_or_emails"]]
      [] cls = "LastLoginCriterion" -> [days |-> config["days"]]
      [] cls = "CourseEnrollmentCriterion" ->
            [mode |-> IF Has(config, "mode") THEN config["mode"] ELSE NoneStr,
             enrollment_date |->
                IF Has(config, "enrollment_date")
                THEN config["enrollment_date"] ELSE NoneTime]
      [] cls = "EnrollmentModeCriterion" -> [mode |-> config["mode"]]
      [] cls = "UserStaffStatusCriterion" -> [is_staff |-> config["is_staff"]]

\* A faulty variant that accepts any operator.
OperatorAlwaysValidMutant(cls, operator) == TRUE

\* BaseCriterionType.validate_operator
validate_operator(cls, operator) ==
    /\ operator \in ComparisonOperator
    /\ supported_operators(cls) # {} => operator \in supported_operators(cls)

\* utils.get_scope_type_from_content_type
get_scope_type_from_content_type(content_type) ==
    CASE content_type.model = "courseoverview" -> "course"
      [] content_type.model = "organization" -> "organization"
      [] OTHER -> "instance"

(***************************************************************************)
(* BaseCriterionType.__init__: validate the configuration, then the        *)
(* operator, then assert that the scope type is supported.                 *)
(***************************************************************************)
Failure(error) == [ok |-> FALSE, error |-> error]

CriterionInit(cls, criterion_operator, criterion_config, scope) ==
    IF ~ConfigValid(cls, criterion_config) THEN Failure("ValidationError")
    ELSE IF ~validate_operator(cls, criterion_operator)
    THEN Failure("ValueError")
    ELSE IF get_scope_type_from_content_type(scope.content_type)
                \notin scopes_of(cls)
    THEN Failure("AssertionError")
    ELSE [ok |-> TRUE, error |-> "",
          cls |-> cls,
          criterion_operator |-> criterion_operator,
          criterion_config |-> ConfigModel(cls, criterion_config),
          scope |-> scope]

\* manager.load_criterion_class_and_create_instance: resolve the type name
\* (an unregistered name is a hard error) and construct the instance.
load_criterion_class_and_create_instance(criterion_type, criterion_operator, criterion_config, scope) ==
    IF get_criterion_class_by_type(criterion_type) = NoClass
    THEN Failure("UnknownCriterionType")
    ELSE CriterionInit(get_criterion_class_by_type(criterion_type),
                       criterion_operator, criterion_config, scope)

\* BaseCriterionType.serialize
serialize(instance) ==
    [criterion_type |-> ClassCriterionType(instance.cls),
     criterion_operator |-> instance.criterion_operator,
     criterion_config |-> instance.criterion_config]

\* models.JSONField: json.dumps of the configuration with the default
\* encoder; a datetime value is not serialisable.
JsonSerializable(config) ==
    Has(config, "enrollment_date") => config["enrollment_date"] = NoneTime


(***************************************************************************)
(* State.                                                                  *)
(*   users, enrollments : the backend data the criteria query (the User    *)
(*       table and the course enrollments of the platform)                 *)
(*   scopes, groups, criteria, memberships, next_group_id : the tables of  *)
(*       models.py and the UserGroup primary-key sequence                  *)
(*   group_collections : the GroupCollection table, each row with the set  *)
(*       of groups its user_groups relation holds                          *)
(*   clock : timezone.now(), in days                                       *)
(*   _event_to_class_map : BaseCriterionType._event_to_class_map           *)
(*   lastOp : the last call made and its outcome (what the caller of the   *)
(*       API observes: the exception raised, the groups handed to the      *)
(*       evaluator)                                                        *)
(*   inflight : per worker, the open transaction of a call to              *)
(*       evaluate_and_update_membership_for_group that the worker is       *)
(*       executing statement by statement                                  *)
(***************************************************************************)
VARIABLES users, enrollments, scopes, groups, criteria, memberships,
          next_group_id, clock, _event_to_class_map, lastOp, inflight,
          group_collections

vars == <<users, enrollments, scopes, groups, criteria, memberships,
          next_group_id, clock, _event_to_class_map, lastOp, inflight,
          group_collections>>

backendVars == <<users, enrollments>>
dbVars == <<scopes, groups, criteria, memberships, next_group_id,
           group_collections>>

\* The database as one value, as a transaction sees it.
DB == [scopes |-> scopes, groups |-> groups, criteria |-> criteria,
       memberships |-> memberships, next_group_id |-> next_group_id,
       group_collections |-> group_collections]

Backend == [users |-> users, enrollments |-> enrollments]

NoLogin == 0 - 1

Username(u) == <<"user_1", "user_2", "user_3", "user_4">>[u]
Email(u) ==
    <<"user_1@example.com", "user_2@example.com", "user_3@example.com",
      "user_4@example.com">>[u]

(***************************************************************************)
(* backends.py: DjangoORMBackendClient                                     *)
(***************************************************************************)
\* get_users: User.objects.all().exclude(is_staff=True, is_superuser=True)
get_users(backend, scope) ==
    {u \in DOMAIN backend.users :
        ~(backend.users[u].is_staff /\ backend.users[u].is_superuser)}

\* get_enrollments: CourseEnrollment.objects.filter(course_id=scope.object_id)
get_enrollments(backend, scope) ==
    {e \in backend.enrollments : e.course_id = scope.object_id}

(***************************************************************************)
(* criteria_types.py: evaluate() of each criterion type.  The result is    *)
(* [none |-> FALSE, users |-> the queryset's users], or none |-> TRUE      *)
(* where the method returns None.                                          *)
(***************************************************************************)
QuerySet(us) == [none |-> FALSE, users |-> us]
ReturnsNone == [none |-> TRUE, users |-> {}]

\* timedelta(days=...)
timedelta(days) == days * TicksPerDay

\* A faulty mapping that reads the operator as a comparison of the login
\* date itself instead of the days elapsed since the login.
NaiveOperatorMappingMutant(operator) ==
    CASE operator = "=" -> "exact"
      [] operator = "!=" -> "exact"
      [] operator = ">" -> "gt"
      [] operator = ">=" -> "gte"
      [] operator = "<" -> "lt"
      [] operator = "<=" -> "lte"

\* LastLoginCriterion.evaluate: queryset_operator_mapping
queryset_operator_mapping(operator) ==
    CASE operator = "=" -> "exact"
      [] operator = "!=" -> "exact"
      [] operator = ">" -> "lt"
      [] operator = ">=" -> "lte"
      [] operator = "<" -> "gt"
      [] operator = "<=" -> "gte"

\* The field lookups of the ORM; a NULL column matches none of them.
Lookup(lookup, value, against) ==
    /\ value # NoLogin
    /\ CASE lookup = "exact" -> value = against
         [] lookup = "lt" -> value < against
         [] lookup = "lte" -> value <= against
         [] lookup = "gt" -> value > against
         [] lookup = "gte" -> value >= against

\* Python truthiness of an Optional[str]
TruthyStr(v) == v # NoneStr /\ v # ""

ManualCriterion_evaluate(instance, backend) ==
    QuerySet({u \in get_users(backend, instance.scope) :
        \/ Username(u) \in Range(instance.criterion_config.usernames_or_emails)
        \/ Email(u) \in Range(instance.criterion_config.usernames_or_emails)})

CourseEnrollmentCriterion_evaluate(instance, backend) ==
    QuerySet({u \in get_users(backend, instance.scope) :
        \E e \in get_enrollments(backend, instance.scope) :
            /\ e.user = u
            /\ TruthyStr(instance.criterion_config.mode)
                  => e.mode = instance.criterion_config.mode
            /\ instance.criterion_config.enrollment_date # NoneTime
                  => e.created >= instance.criterion_config.enrollment_date})

LastLoginCriterion_evaluate(instance, backend, now) ==
    QuerySet({u \in get_users(backend, instance.scope) :
        Lookup(queryset_operator_mapping(instance.criterion_operator),
               backend.users[u].last_login,
               now - timedelta(instance.criterion_config.days))})

\* The body of EnrollmentModeCriterion.evaluate is a comment: it returns None.
EnrollmentModeCriterion_evaluate(instance, backend) == ReturnsNone

UserStaffStatusCriterion_evaluate(instance, backend) ==
    QuerySet({u \in get_users(backend, instance.scope) :
        backend.users[u].is_staff = instance.criterion_config.is_staff})

evaluate(instance, backend, now) ==
    CASE instance.cls = "ManualCriterion" ->
            ManualCriterion_evaluate(instance, backend)
      [] instance.cls = "CourseEnrollmentCriterion" ->
            CourseEnrollmentCriterion_evaluate(instance, backend)
      [] instance.cls = "LastLoginCriterion" ->
            LastLoginCriterion_evaluate(instance, backend, now)
      [] instance.cls = "EnrollmentModeCriterion" ->
            EnrollmentModeCriterion_evaluate(instance, backend)
      [] instance.cls = "UserStaffStatusCriterion" ->
            UserStaffStatusCriterion_evaluate(instance, backend)

(***************************************************************************)
(* models.py                                                               *)
(***************************************************************************)
\* Criterion.criterion_instance: the class registered for the stored type,
\* constructed from the stored operator and configuration and the scope of
\* the owning group.  Calling the None of an unregistered type raises.
criterion_instance(db, criterion) ==
    IF get_criterion_class_by_type(criterion.criterion_type) = NoClass
    THEN Failure("TypeError")
    ELSE CriterionInit(get_criterion_class_by_type(criterion.criterion_type),
                       criterion.criterion_operator,
                       criterion.criterion_config,
                       db.groups[criterion.user_group].scope)

\* user_group.criteria.all(): the criteria rows of a group, in table order.
group_criteria(db, group_id) ==
    SelectSeq(db.criteria, LAMBDA c : c.user_group = group_id)

\* A faulty relation that is not filtered by group.
AllRowsMutant(db, group_id) == db.memberships

\* user_group.usergroupmembership_set.all()
usergroupmembership_set(db, group_id) ==
    {m \in db.memberships : m.group = group_id}

\* A faulty save on a table without the unique_together constraint.
SaveWithoutConstraintMutant(db, group_id, instance, now) ==
    [ok |-> TRUE, error |-> "",
     db |-> [db EXCEPT !.groups[group_id] =
                [instance EXCEPT !.last_membership_change = now]]]

\* super().save() of an existing row: write every field of the instance
\* (auto_now sets last_membership_change).  The unique_together constraint
\* on (name, scope) is the database's.
Model_save(db, group_id, instance, now) ==
    IF \E g \in DOMAIN db.groups :
            /\ g # group_id
            /\ db.groups[g].name = instance.name
            /\ db.groups[g].scope = instance.scope
    THEN [ok |-> FALSE, error |-> "IntegrityError", db |-> db]
    ELSE [ok |-> TRUE, error |-> "",
          db |-> [db EXCEPT !.groups[group_id] =
                    [instance EXCEPT !.last_membership_change = now]]]

\* A faulty save that lacks the scope comparison.
UserGroup_save_NoScopeCheck(db, group_id, instance, now) ==
    Model_save(db, group_id, instance, now)

\* UserGroup.save() of an existing row: refuse a changed scope, else save.
UserGroup_save(db, group_id, instance, now) ==
    IF db.groups[group_id].scope # instance.scope
    THEN [ok |-> FALSE, error |-> "ValueError", db |-> db]
    ELSE Model_save(db, group_id, instance, now)

(***************************************************************************)
(* utils.py: process_content_object.  The platform holds the courses,      *)
(* organizations and content types below; a resource it does not hold      *)
(* raises DoesNotExist.                                                    *)
(***************************************************************************)
Courses == {"c1"}
Organizations == {"o1"}
ContentTypes ==
    {[app_label |-> "course_overviews", model |-> "courseoverview"],
     [app_label |-> "organizations", model |-> "organization"],
     [app_label |-> "instance", model |-> "instance"]}

process_content_object(content_object_data) ==
    LET content_type_model == content_object_data.content_type_model
        object_id == content_object_data.object_id
    IN  IF content_type_model = "courseoverview"
        THEN IF object_id \in Courses
             THEN [ok |-> TRUE, error |-> "", object_id |-> object_id,
                   content_type |-> [app_label |-> "course_overviews",
                                     model |-> "courseoverview"]]
             ELSE Failure("DoesNotExist")
        ELSE IF content_type_model = "organization"
        THEN IF object_id \in Organizations
             THEN [ok |-> TRUE, error |-> "", object_id |-> object_id,
                   content_type |-> [app_label |-> "organizations",
                                     model |-> "organization"]]
             ELSE Failure("DoesNotExist")
        ELSE IF [app_label |-> content_type_model,
                 model |-> content_type_model] \in ContentTypes
             THEN [ok |-> TRUE, error |-> "", object_id |-> object_id,
                   content_type |-> [app_label |-> content_type_model,
                                     model |-> content_type_model]]
             ELSE Failure("DoesNotExist")

(***************************************************************************)
(* api.py                                                                  *)
(***************************************************************************)
Raise(error, db) == [ok |-> FALSE, error |-> error, db |-> db]

\* A faulty lookup that never finds the existing group and always makes a
\* new one.
AlwaysCreateMutant(db, name, description, scope, now) ==
    LET pco == process_content_object(scope.content_object)
    IN  IF ~pco.ok THEN Raise(pco.error, db)
        ELSE
        LET scope_obj == [name |-> scope.name,
                          description |-> scope.description,
                          content_type |-> pco.content_type,
                          object_id |-> pco.object_id]
            id == db.next_group_id
        IN  [ok |-> TRUE, error |-> "",
             db |-> [db EXCEPT
                       !.scopes = @ \cup {scope_obj},
                       !.groups = @ @@ (id :>
                           [name |-> name,
                            description |-> description,
                            scope |-> scope_obj,
                            enabled |-> TRUE,
                            last_membership_change |-> now]),
                       !.next_group_id = @ + 1],
             user_group |-> id,
             scope_obj |-> scope_obj]

\* get_or_create_group_and_scope
get_or_create_group_and_scope(db, name, description, scope, now) ==
    LET pco == process_content_object(scope.content_object)
    IN  IF ~pco.ok THEN Raise(pco.error, db)
        ELSE
        LET scope_obj == [name |-> scope.name,
                          description |-> scope.description,
                          content_type |-> pco.content_type,
                          object_id |-> pco.object_id]
            found == {g \in DOMAIN db.groups :
                        /\ db.groups[g].name = name
                        /\ db.groups[g].description = description
                        /\ db.groups[g].scope = scope_obj}
            id == db.next_group_id
        IN  IF found # {}
            THEN [ok |-> TRUE, error |-> "",
                  db |-> [db EXCEPT !.scopes = @ \cup {scope_obj}],
                  user_group |-> CHOOSE g \in found : TRUE,
                  scope_obj |-> scope_obj]
            ELSE IF \E g \in DOMAIN db.groups :
                        /\ db.groups[g].name = name
                        /\ db.groups[g].scope = scope_obj
            THEN Raise("IntegrityError", db)
            ELSE [ok |-> TRUE, error |-> "",
                  db |-> [db EXCEPT
                            !.scopes = @ \cup {scope_obj},
                            !.groups = @ @@ (id :>
                                [name |-> name,
                                 description |-> description,
                                 scope |-> scope_obj,
                                 enabled |-> TRUE,
                                 last_membership_change |-> now]),
                            !.next_group_id = @ + 1],
                  user_group |-> id,
                  scope_obj |-> scope_obj]

\* A faulty create that reports success and stores no row.
NoRowMutant(db, user_group, fields) ==
    [ok |-> TRUE, error |-> "", db |-> db]

\* Criterion.objects.create(user_group=..., **fields): the JSONField encodes
\* the configuration on save, and a value the encoder does not know raises.
Criterion_create(db, user_group, fields) ==
    IF ~JsonSerializable(fields.criterion_config) THEN Raise("TypeError", db)
    ELSE [ok |-> TRUE, error |-> "",
          db |-> [db EXCEPT !.criteria =
                    Append(@, [user_group |-> user_group] @@ fields)]]

\* The loop of create_group_with_criteria_from_data: construct each
\* criterion (which validates it) and store its serialized form.
RECURSIVE CreateCriteria(_, _, _, _)
CreateCriteria(db, user_group, scope_obj, criteria_data) ==
    IF criteria_data = <<>> THEN [ok |-> TRUE, error |-> "", db |-> db]
    ELSE
    LET data == Head(criteria_data)
        instance == load_criterion_class_and_create_instance(
                        data.criterion_type, data.criterion_operator,
                        data.criterion_config, scope_obj)
    IN  IF ~instance.ok THEN Raise(instance.error, db)
        ELSE IF ~Criterion_create(db, user_group, serialize(instance)).ok
        THEN Raise(Criterion_create(db, user_group,
                                    serialize(instance)).error, db)
        ELSE CreateCriteria(
                Criterion_create(db, user_group, serialize(instance)).db,
                user_group, scope_obj, Tail(criteria_data))

\* A faulty block that keeps the writes made before the exception.
NoRollbackMutant(db, result) == result

\* transaction.atomic(): an exception inside the block leaves the database
\* as it was when the block was entered.
atomic(db, result) ==
    IF result.ok THEN result ELSE [result EXCEPT !.db = db]

create_group_with_criteria_from_data(db, name, description, scope, criteria_data, now) ==
    LET g == get_or_create_group_and_scope(db, name, description, scope, now)
    IN  IF ~g.ok THEN g
        ELSE atomic(db,
                [user_group |-> g.user_group] @@
                CreateCriteria(g.db, g.user_group, g.scope_obj, criteria_data))

\* user_group.criteria.all() under Criterion.Meta.ordering =
\* ["criterion_type"]: by type name, rows of one type in table order.
criteria_all(db, group_id) ==
    LET cs == group_criteria(db, group_id)
        of(t) == SelectSeq(cs, LAMBDA c : c.criterion_type = t)
    IN  of("course_enrollment") \o of("enrollment_mode") \o of("last_login")
            \o of("manual") \o of("user_staff_status")

\* A faulty reducer that keeps the last result instead of intersecting.
RECURSIVE LastResultMutant(_, _)
LastResultMutant(usrs, results) ==
    IF results = <<>> THEN usrs
    ELSE LastResultMutant(Head(results).users, Tail(results))

\* A faulty reducer that combines the results with OR instead of AND.
RECURSIVE UnionMutant(_, _)
UnionMutant(usrs, results) ==
    IF results = <<>> THEN usrs
    ELSE UnionMutant(usrs \cup Head(results).users, Tail(results))

\* The reducer of evaluate_and_update_membership_for_group: the first
\* result intersected with each of the following ones.
RECURSIVE Intersect(_, _)
Intersect(usrs, results) ==
    IF results = <<>> THEN usrs
    ELSE Intersect(usrs \cap Head(results).users, Tail(results))

\* A faulty roster swap that keeps the rows of the users who stay members.
KeepJoinedAtMutant(db, group_id, usrs, now) ==
    [db EXCEPT !.memberships =
        (@ \ {m \in usergroupmembership_set(db, group_id) :
                    m.user \notin usrs})
        \cup {[user |-> u, group |-> group_id, joined_at |-> now,
               is_active |-> TRUE] :
                u \in {v \in usrs :
                    ~\E m \in usergroupmembership_set(db, group_id) :
                        m.user = v}}]

\* A faulty roster swap that skips the delete.
KeepOldRowsMutant(db, group_id, usrs, now) ==
    [db EXCEPT !.memberships =
        @ \cup {[user |-> u, group |-> group_id, joined_at |-> now,
                 is_active |-> TRUE] : u \in usrs}]

\* The roster swap: delete every membership row of the group, then
\* bulk_create one row per computed user.
ReplaceRoster(db, group_id, usrs, now) ==
    [db EXCEPT !.memberships =
        (@ \ usergroupmembership_set(db, group_id))
        \cup {[user |-> u, group |-> group_id, joined_at |-> now,
               is_active |-> TRUE] : u \in usrs}]

\* A faulty combinator that leaves out the criteria whose evaluation fails
\* and intersects the results of the others.
SkipFailedMutant(db, group_id, backend, now) ==
    LET cs == criteria_all(db, group_id)
        good == SelectSeq(cs, LAMBDA c :
                    /\ criterion_instance(db, c).ok
                    /\ ~evaluate(criterion_instance(db, c), backend, now).none)
        results == [i \in DOMAIN good |->
                        evaluate(criterion_instance(db, good[i]), backend, now)]
    IN  [ok |-> TRUE, error |-> "", late |-> FALSE,
         users |-> IF results # <<>>
                   THEN Intersect(results[1].users, Tail(results))
                   ELSE {}]

\* The combinator and reducer of evaluate_and_update_membership_for_group:
\* the criteria of the group are instantiated and evaluated and the results
\* intersected.  A None among several results makes the reducer raise
\* (AttributeError).  A None that is the single result is not touched until
\* the rows are built from it, after the delete (late): iterating over it
\* raises TypeError.
CombineCriteria(db, group_id, backend, now) ==
    LET cs == criteria_all(db, group_id)
        instances == [i \in DOMAIN cs |-> criterion_instance(db, cs[i])]
    IN  IF \E i \in DOMAIN cs : ~instances[i].ok
        THEN [ok |-> FALSE, users |-> {}, late |-> FALSE,
              error |-> instances[CHOOSE i \in DOMAIN cs :
                        /\ ~instances[i].ok
                        /\ \A j \in 1..(i - 1) : instances[j].ok].error]
        ELSE
        LET criteria_results ==
                [i \in DOMAIN cs |-> evaluate(instances[i], backend, now)]
        IN  IF \E i \in DOMAIN cs : criteria_results[i].none
            THEN [ok |-> FALSE, users |-> {}, late |-> Len(cs) = 1,
                  error |-> IF Len(cs) = 1 THEN "TypeError"
                            ELSE "AttributeError"]
            ELSE [ok |-> TRUE, error |-> "", late |-> FALSE,
                  users |-> IF criteria_results # <<>>
                            THEN Intersect(criteria_results[1].users,
                                           Tail(criteria_results))
                            ELSE {}]

\* evaluate_and_update_membership_for_group, run without interruption: the
\* whole body is one transaction.atomic() block.
evaluate_and_update_membership_for_group(db, group_id, backend, now) ==
    IF group_id \notin DOMAIN db.groups THEN Raise("DoesNotExist", db)
    ELSE IF ~CombineCriteria(db, group_id, backend, now).ok
    THEN atomic(db, Raise(
            CombineCriteria(db, group_id, backend, now).error,
            IF CombineCriteria(db, group_id, backend, now).late
            THEN ReplaceRoster(db, group_id, {}, now)
            ELSE db))
    ELSE atomic(db, UserGroup_save(
            ReplaceRoster(db, group_id,
                          CombineCriteria(db, group_id, backend, now).users,
                          now),
            group_id, db.groups[group_id], now))

\* evaluate_and_update_membership_for_multiple_groups: the groups one
\* after the other inside one transaction.  calls lists the groups the
\* evaluator was invoked for.
\* A faulty loop that stops after the first group of the list.
SkipRestMutant(db, group_ids, backend, now, calls) ==
    IF group_ids = <<>>
    THEN [ok |-> TRUE, error |-> "", db |-> db, calls |-> calls]
    ELSE [calls |-> Append(calls, Head(group_ids))] @@
         evaluate_and_update_membership_for_group(
            db, Head(group_ids), backend, now)

RECURSIVE EvaluateEach(_, _, _, _, _)
EvaluateEach(db, group_ids, backend, now, calls) ==
    IF group_ids = <<>>
    THEN [ok |-> TRUE, error |-> "", db |-> db, calls |-> calls]
    ELSE
    LET r == evaluate_and_update_membership_for_group(
                db, Head(group_ids), backend, now)
    IN  IF ~r.ok
        THEN [ok |-> FALSE, error |-> r.error, db |-> db,
              calls |-> Append(calls, Head(group_ids))]
        ELSE EvaluateEach(r.db, Tail(group_ids), backend, now,
                          Append(calls, Head(group_ids)))

evaluate_and_update_membership_for_multiple_groups(db, group_ids, backend, now) ==
    atomic(db, EvaluateEach(db, group_ids, backend, now, <<>>))

(***************************************************************************)
(* Group collections.                                                      *)
(***************************************************************************)
\* for group_id in group_ids: group_collection.user_groups.add(
\* get_group_by_id(group_id)); adding a group the relation holds changes
\* nothing.
RECURSIVE AddGroups(_, _, _)
AddGroups(db, group_collection_id, group_ids) ==
    IF group_ids = <<>> THEN [ok |-> TRUE, error |-> "", db |-> db]
    ELSE IF Head(group_ids) \notin DOMAIN db.groups
    THEN Raise("DoesNotExist", db)
    ELSE AddGroups(
            [db EXCEPT !.group_collections[group_collection_id].user_groups =
                            @ \cup {Head(group_ids)}],
            group_collection_id, Tail(group_ids))

create_group_collection_and_add_groups(db, name, description, group_ids) ==
    [group_collection_id |-> Len(db.group_collections) + 1] @@
    atomic(db, AddGroups(
        [db EXCEPT !.group_collections =
            Append(@, [name |-> name, description |-> description,
                       user_groups |-> {}])],
        Len(db.group_collections) + 1, group_ids))

\* GroupCollection.objects.prefetch_related("user_groups").get(id=...)
get_group_collection_by_id(db, group_collection_id) ==
    IF group_collection_id \in DOMAIN db.group_collections
    THEN [ok |-> TRUE, error |-> "",
          group_collection |-> db.group_collections[group_collection_id]]
    ELSE [ok |-> FALSE, error |-> "DoesNotExist"]

\* Count("usergroupmembership__group", distinct=True) over the rows joined
\* by filter(usergroupmembership__group__in=...)
group_count(db, user, group_ids) ==
    Cardinality({m.group : m \in {n \in db.memberships :
                                    n.user = user /\ n.group \in group_ids}})

\* A faulty query that keeps the users with a membership in any group of
\* the collection.
AnyMembershipMutant(db, group_ids) ==
    {u \in {m.user : m \in db.memberships} : group_count(db, u, group_ids) > 0}

\* User.objects.filter(usergroupmembership__group__in=...)
\*     .annotate(group_count=...).filter(group_count__gt=1)
duplicates(db, group_ids) ==
    {u \in {m.user : m \in db.memberships} : group_count(db, u, group_ids) > 1}

\* A faulty removal that keeps each duplicate in the group of lowest id.
KeepWinnerMutant(db, users_found, group_ids) ==
    [db EXCEPT !.memberships =
        {m \in @ : ~ /\ m.user \in users_found
                     /\ m.group \in group_ids
                     /\ \E g \in group_ids : g < m.group}]

\* for duplicate in duplicates:
\*     duplicate.usergroupmembership_set.filter(group__in=...).delete()
RemoveDuplicates(db, users_found, group_ids) ==
    [db EXCEPT !.memberships =
        {m \in @ : ~(m.user \in users_found /\ m.group \in group_ids)}]

\* The QuerySet handed back: the for loop over it has filled its result
\* cache when duplicates.exists(); otherwise it is still unevaluated and
\* runs on the tables as the block left them when the caller reads it.
ReturnedDuplicates(found, db, group_ids) ==
    IF found # {} THEN found ELSE duplicates(db, group_ids)

\* evaluate_and_update_membership_for_group_collection; order is the order
\* in which group_collection.user_groups.all(), a query without ORDER BY,
\* yields the groups.
evaluate_and_update_membership_for_group_collection(db, group_collection_id, order, backend, now) ==
    IF ~get_group_collection_by_id(db, group_collection_id).ok
    THEN [duplicates |-> {}, calls |-> <<>>] @@ Raise("DoesNotExist", db)
    ELSE LET group_ids ==
                get_group_collection_by_id(db, group_collection_id)
                    .group_collection.user_groups
             ev == EvaluateEach(db, order, backend, now, <<>>)
             found == duplicates(ev.db, group_ids)
             removed == IF found # {}
                        THEN RemoveDuplicates(ev.db, found, group_ids)
                        ELSE ev.db
         IN  IF ~ev.ok THEN [duplicates |-> {}] @@ atomic(db, ev)
             ELSE [ok |-> TRUE, error |-> "", db |-> removed,
                   calls |-> ev.calls,
                   duplicates |->
                        ReturnedDuplicates(found, removed, group_ids)]

(***************************************************************************)
(* Deleting groups.                                                        *)
(***************************************************************************)
\* A faulty delete that leaves the membership rows of the group behind.
KeepMembershipsMutant(db, group_id) ==
    [ok |-> TRUE, error |-> "",
     db |-> [db EXCEPT
        !.groups = [g \in DOMAIN @ \ {group_id} |-> @[g]],
        !.criteria = SelectSeq(@, LAMBDA c : c.user_group # group_id)]]

\* hard_delete_group: UserGroup.objects.filter(id=group_id).delete(); the
\* rows whose foreign key to the group is on_delete=CASCADE (criteria,
\* memberships) and the rows of the user_groups relation of the collections
\* go with it.  Deleting no row is not an error.
hard_delete_group(db, group_id) ==
    [ok |-> TRUE, error |-> "",
     db |-> [db EXCEPT
        !.groups = [g \in DOMAIN @ \ {group_id} |-> @[g]],
        !.criteria = SelectSeq(@, LAMBDA c : c.user_group # group_id),
        !.memberships = {m \in @ : m.group # group_id},
        !.group_collections =
            [c \in DOMAIN @ |->
                [@[c] EXCEPT !.user_groups = @ \ {group_id}]]]]

\* soft_delete_group: UserGroup.objects.filter(id=group_id)
\* .update(is_active=False).  UserGroup has no field is_active (its flag is
\* enabled), and update() resolves the field names before it touches a row.
soft_delete_group(db, group_id) == Raise("FieldDoesNotExist", db)

\* create_group_with_criteria
create_group_with_criteria(db, name, description, scope, criteria_data, now) ==
    atomic(db, create_group_with_criteria_from_data(
                    db, name, description, scope, criteria_data, now))

\* create_group_with_criteria_and_evaluate_membership
create_group_with_criteria_and_evaluate_membership(db, name, description, scope, criteria_data, backend, now) ==
    LET c == create_group_with_criteria_from_data(
                db, name, description, scope, criteria_data, now)
    IN  IF ~c.ok THEN c
        ELSE atomic(db,
                [user_group |-> c.user_group] @@
                evaluate_and_update_membership_for_group(
                    c.db, c.user_group, backend, now))

(***************************************************************************)
(* tasks.py                                                                *)
(***************************************************************************)
\* The order in which a dict built by serialize() lists its keys.
KeyOrder ==
    <<"usernames_or_emails", "days", "mode", "enrollment_date", "is_staff">>

items(dict) == SelectSeq(KeyOrder, LAMBDA k : k \in DOMAIN dict)

\* A faulty loop that reports a change for any differing key, whatever
\* precedes it.
AnyKeyDiffersMutant(event_data, criterion_config, keys) ==
    \E n \in DOMAIN keys :
        /\ keys[n] \in DOMAIN event_data
        /\ event_data[keys[n]] # criterion_config[keys[n]]

\* check_if_membership_state_changed: the loop over criterion_config.items()
\* returns at the first key that is missing from the event data (False) or
\* whose value differs (True).
RECURSIVE StateChangedFrom(_, _, _)
StateChangedFrom(event_data, criterion_config, keys) ==
    IF keys = <<>> THEN FALSE
    ELSE IF Head(keys) \notin DOMAIN event_data THEN FALSE
    ELSE IF event_data[Head(keys)] # criterion_config[Head(keys)] THEN TRUE
    ELSE StateChangedFrom(event_data, criterion_config, Tail(keys))

\* A faulty heuristic that reports a change for every event.
AlwaysChangedMutant(event_data, criterion_config) == TRUE

\* A faulty heuristic that never reports a change.
NeverChangedMutant(event_data, criterion_config) == FALSE

\* tasks.check_if_membership_state_changed
check_if_membership_state_changed(event_data, criterion_config) ==
    StateChangedFrom(event_data, criterion_config, items(criterion_config))

\* The value of event_data.get("id"); 0 stands for an absent or falsy id.
EventUserId(event_data) ==
    IF "id" \in DOMAIN event_data THEN event_data["id"] ELSE 0

\* A faulty guard that never takes the early return.
IgnoreMissingIdMutant(event_data) == FALSE

\* if not user_id: return
NoSubjectUser(event_data) == EventUserId(event_data) = 0

\* event_to_class_map.get(event_type, [])
AffectedCriteriaTypes(event_to_class_map, event_type) ==
    IF event_type \in DOMAIN event_to_class_map
    THEN Range(event_to_class_map[event_type])
    ELSE {}

\* The rows of a query on UserGroup filtered through the criteria relation:
\* the join yields a group once per criterion of an affected type.
AffectedCriteria(db, group_id, affected) ==
    SelectSeq(group_criteria(db, group_id),
              LAMBDA c : c.criterion_type \in affected)

RECURSIVE Repeat(_, _)
Repeat(x, n) == IF n = 0 THEN <<>> ELSE <<x>> \o Repeat(x, n - 1)

\* The group names the calls use, in the collation order of the database.
GroupNames == <<"A", "B">>

RECURSIVE RowsNamed(_, _, _, _)
RowsNamed(db, affected, name, g) ==
    IF g >= db.next_group_id THEN <<>>
    ELSE (IF /\ g \in DOMAIN db.groups
             /\ db.groups[g].enabled
             /\ db.groups[g].name = name
          THEN Repeat(g, Len(AffectedCriteria(db, g, affected)))
          ELSE <<>>)
         \o RowsNamed(db, affected, name, g + 1)

\* UserGroup.objects.filter(enabled=True, criteria__criterion_type__in=...)
\* under UserGroup.Meta.ordering = ["name"]; groups of one name are listed
\* in id order.
RECURSIVE JoinRows(_, _, _)
JoinRows(db, affected, names) ==
    IF names = <<>> THEN <<>>
    ELSE RowsNamed(db, affected, Head(names), 1)
            \o JoinRows(db, affected, Tail(names))

\* list(set_of_ids)
RECURSIVE SetToList(_, _, _)
SetToList(ids, g, top) ==
    IF g > top THEN <<>>
    ELSE (IF g \in ids THEN <<g>> ELSE <<>>) \o SetToList(ids, g + 1, top)

\* The memberships query: the user's active memberships in enabled groups
\* holding a criterion of an affected type.
EventMemberships(db, user_id, affected) ==
    {m \in db.memberships :
        /\ m.user = user_id
        /\ m.is_active
        /\ db.groups[m.group].enabled
        /\ AffectedCriteria(db, m.group, affected) # <<>>}

\* The groups the loop over the memberships marks.
ChangedGroups(db, event_data, affected, mships) ==
    {m.group : m \in
        {m \in mships :
            \E i \in DOMAIN AffectedCriteria(db, m.group, affected) :
                check_if_membership_state_changed(
                    event_data,
                    AffectedCriteria(db, m.group, affected)[i]
                        .criterion_config)}}

\* potential_groups
PotentialGroups(db, affected, current_group_ids) ==
    {g \in DOMAIN db.groups :
        /\ db.groups[g].enabled
        /\ AffectedCriteria(db, g, affected) # <<>>
        /\ g \notin current_group_ids}

NoUpdate(db) ==
    [ok |-> TRUE, error |-> "", db |-> db, calls |-> <<>>,
     groups_to_update |-> <<>>]

orchestrate_user_groups_updates_based_on_events(db, event_type, event_data, event_to_class_map, backend, now) ==
    LET user_id == EventUserId(event_data)
        affected == AffectedCriteriaTypes(event_to_class_map, event_type)
        mships == EventMemberships(db, user_id, affected)
        all_groups == JoinRows(db, affected, GroupNames)
        marked == ChangedGroups(db, event_data, affected, mships)
                    \cup PotentialGroups(db, affected,
                                         {m.group : m \in mships})
        to_update == IF mships = {} THEN all_groups
                     ELSE SetToList(marked, 1, db.next_group_id)
    IN  IF NoSubjectUser(event_data) THEN NoUpdate(db)
        ELSE IF affected = {} THEN NoUpdate(db)
        ELSE IF mships # {} /\ marked = {} THEN NoUpdate(db)
        ELSE [groups_to_update |-> to_update] @@
             evaluate_and_update_membership_for_multiple_groups(
                db, to_update, backend, now)

(***************************************************************************)
(* criteria.py: BaseCriterionType.get_all_updated_by_events appends, for   *)
(* every subclass and every event the subclass declares, the subclass's    *)
(* type name to the event's entry of _event_to_class_map.                  *)
(***************************************************************************)
RegisterSubclass(map, cls) ==
    LET events == Range(updated_by_events(cls))
    IN  [e \in DOMAIN map \cup events |->
            (IF e \in DOMAIN map THEN map[e] ELSE <<>>)
            \o (IF e \in events THEN <<ClassCriterionType(cls)>> ELSE <<>>)]

RECURSIVE RegisterAll(_, _)
RegisterAll(map, classes) ==
    IF classes = <<>> THEN map
    ELSE RegisterAll(RegisterSubclass(map, Head(classes)), Tail(classes))

\* A faulty enumeration that starts from an empty map.
RebuildMutant(map) == RegisterAll(<<>>, Subclasses)

get_all_updated_by_events(map) == RegisterAll(map, Subclasses)

(***************************************************************************)
(* Inputs of the calls.                                                    *)
(***************************************************************************)
CourseScope ==
    [name |-> "course one", description |-> "",
     content_object |-> [content_type_model |-> "courseoverview",
                         object_id |-> "c1"]]
OrganizationScope ==
    [name |-> "org one", description |-> "",
     content_object |-> [content_type_model |-> "organization",
                         object_id |-> "o1"]]
InstanceScope ==
    [name |-> "site", description |-> "",
     content_object |-> [content_type_model |-> "instance",
                         object_id |-> "1"]]
MissingCourseScope ==
    [name |-> "course nine", description |-> "",
     content_object |-> [content_type_model |-> "courseoverview",
                         object_id |-> "c9"]]

Criterion(type, operator, config) ==
    [criterion_type |-> type, criterion_operator |-> operator,
     criterion_config |-> config]

StaffFalse == Criterion("user_staff_status", "=", [is_staff |-> FALSE])
StaffTrue == Criterion("user_staff_status", "=", [is_staff |-> TRUE])
LoginOlder == Criterion("last_login", ">", [days |-> 1])
LoginNewer == Criterion("last_login", "<", [days |-> 1])
ManualTwo == Criterion("manual", "in", [usernames_or_emails |-> <<"user_2">>])
EnrolledHonor == Criterion("course_enrollment", "=", [mode |-> "honor"])
EnrolledAudit == Criterion("course_enrollment", "=", [mode |-> "audit"])
ModeHonor == Criterion("enrollment_mode", "=", [mode |-> "honor"])
AliasModeHonor ==
    Criterion("enrolled_with_specific_mode", "=", [mode |-> "honor"])
UnknownType == Criterion("bogus", "=", [days |-> 1])
BadOperator == Criterion("last_login", "in", [days |-> 1])
UnknownOperator == Criterion("user_staff_status", "~", [is_staff |-> TRUE])
BadConfig == Criterion("last_login", ">", [days |-> 0 - 1])
MissingConfig == Criterion("user_staff_status", "=", EmptyDict)
EnrolledSince ==
    Criterion("course_enrollment", ">=", [enrollment_date |-> 1])

\* A worker that is executing no call and has made none.
Idle == [pc |-> "idle", calls |-> 0]

(***************************************************************************)
(* Init: the application is ready (apps.py ready() has enumerated the      *)
(* event subscriptions), the tables of the app are empty, and the platform *)
(* holds the users: user 1 is the superuser.                               *)
(***************************************************************************)
Init ==
    /\ users = [u \in Users |->
                    [is_staff |-> u = 1, is_superuser |-> u = 1,
                     last_login |-> NoLogin]]
    /\ enrollments = {}
    /\ scopes = {}
    /\ groups = <<>>
    /\ criteria = <<>>
    /\ memberships = {}
    /\ next_group_id = 1
    /\ group_collections = <<>>
    /\ clock = 0
    /\ _event_to_class_map = get_all_updated_by_events(<<>>)
    /\ lastOp = [op |-> "init"]
    /\ inflight = [w \in Workers |-> Idle]

Commit(db) ==
    /\ scopes' = db.scopes
    /\ groups' = db.groups
    /\ criteria' = db.criteria
    /\ memberships' = db.memberships
    /\ next_group_id' = db.next_group_id
    /\ group_collections' = db.group_collections

(***************************************************************************)
(* The platform: time passes, users log in, change staff status, enrol.    *)
(***************************************************************************)
Tick ==
    /\ clock < MaxClock
    /\ clock' = clock + 1
    /\ lastOp' = [op |-> "platform"]
    /\ UNCHANGED <<backendVars, dbVars, _event_to_class_map, inflight>>

Login(u) ==
    /\ users[u].last_login # clock
    /\ users' = [users EXCEPT ![u].last_login = clock]
    /\ lastOp' = [op |-> "platform"]
    /\ UNCHANGED <<enrollments, dbVars, clock, _event_to_class_map, inflight>>

SetStaff(u) ==
    /\ users' = [users EXCEPT ![u].is_staff = ~@]
    /\ lastOp' = [op |-> "platform"]
    /\ UNCHANGED <<enrollments, dbVars, clock, _event_to_class_map, inflight>>

\* CourseEnrollment is unique per (user, course): enrolling again changes
\* the mode of the existing row.
Enroll(u, course_id, mode) ==
    /\ ~\E e \in enrollments :
            e.user = u /\ e.course_id = course_id /\ e.mode = mode
    /\ enrollments' =
        {e \in enrollments : ~(e.user = u /\ e.course_id = course_id)}
        \cup {[user |-> u, course_id |-> course_id, mode |-> mode,
               created |->
                  IF \E e \in enrollments :
                        e.user = u /\ e.course_id = course_id
                  THEN (CHOOSE e \in enrollments :
                            e.user = u /\ e.course_id = course_id).created
                  ELSE clock]}
    /\ lastOp' = [op |-> "platform"]
    /\ UNCHANGED <<users, dbVars, clock, _event_to_class_map, inflight>>

(***************************************************************************)
(* The calls of the API.                                                   *)
(***************************************************************************)
CreateGroup(name, description, scope, criteria_data) ==
    \E r \in {create_group_with_criteria(DB, name, description, scope,
                                        criteria_data, clock)} :
        /\ next_group_id <= MaxGroups
        /\ r.ok => Len(group_criteria(r.db, r.user_group)) <= MaxCriteria
        /\ Commit(r.db)
        /\ lastOp' = [op |-> "create_group_with_criteria",
                      name |-> name, scope |-> scope,
                      criteria |-> criteria_data,
                      user_group |-> IF r.ok THEN r.user_group ELSE 0,
                      ok |-> r.ok, error |-> r.error]
        /\ UNCHANGED <<backendVars, clock, _event_to_class_map, inflight>>

CreateGroupAndEvaluate(name, description, scope, criteria_data) ==
    \E r \in {create_group_with_criteria_and_evaluate_membership(
                DB, name, description, scope, criteria_data, Backend, clock)} :
        /\ next_group_id <= MaxGroups
        /\ r.ok => Len(group_criteria(r.db, r.user_group)) <= MaxCriteria
        /\ Commit(r.db)
        /\ lastOp' = [op |->
                        "create_group_with_criteria_and_evaluate_membership",
                      name |-> name, scope |-> scope,
                      criteria |-> criteria_data,
                      user_group |-> IF r.ok THEN r.user_group ELSE 0,
                      ok |-> r.ok, error |-> r.error]
        /\ UNCHANGED <<backendVars, clock, _event_to_class_map, inflight>>

EvaluateGroup(group_id) ==
    \E r \in {evaluate_and_update_membership_for_group(
                DB, group_id, Backend, clock)} :
        /\ Commit(r.db)
        /\ lastOp' = [op |-> "evaluate_and_update_membership_for_group",
                      group_id |-> group_id,
                      before |-> {m.user : m \in
                                    usergroupmembership_set(DB, group_id)},
                      ok |-> r.ok, error |-> r.error]
        /\ UNCHANGED <<backendVars, clock, _event_to_class_map, inflight>>

\* A caller loads a group, assigns fields and calls save().
SaveGroup(group_id, name, scope_obj, enabled) ==
    \E r \in {UserGroup_save(DB, group_id,
                [groups[group_id] EXCEPT !.name = name, !.scope = scope_obj,
                                         !.enabled = enabled],
                clock)} :
        /\ group_id \in DOMAIN groups
        /\ Commit(r.db)
        /\ lastOp' = [op |-> "UserGroup.save", group_id |-> group_id,
                      scope |-> scope_obj,
                      ok |-> r.ok, error |-> r.error]
        /\ UNCHANGED <<backendVars, clock, _event_to_class_map, inflight>>

(***************************************************************************)
(* handlers.py / tasks.py: one event delivered to the analyzer.            *)
(***************************************************************************)
HandleEvent(event_type, event_data) ==
    \E r \in {orchestrate_user_groups_updates_based_on_events(
                DB, event_type, event_data, _event_to_class_map, Backend,
                clock)} :
        /\ Commit(r.db)
        /\ lastOp' = [op |->
                        "orchestrate_user_groups_updates_based_on_events",
                      event_type |-> event_type, event_data |-> event_data,
                      groups_to_update |-> r.groups_to_update,
                      calls |-> r.calls,
                      before |-> memberships,
                      ok |-> r.ok, error |-> r.error]
        /\ UNCHANGED <<backendVars, clock, _event_to_class_map, inflight>>

(***************************************************************************)
(* Spec: a group is created in the course scope and given criteria, staff  *)
(* flags change and time passes on the platform, and the group is          *)
(* evaluated and reconciled.                                               *)
(***************************************************************************)
EvalCriteriaLists ==
    {<<>>, <<StaffFalse>>, <<StaffTrue>>, <<ManualTwo>>, <<ModeHonor>>}

Next ==
    \/ Tick
    \/ \E u \in Users : SetStaff(u)
    \/ \E cd \in EvalCriteriaLists : CreateGroup("A", "", CourseScope, cd)
    \/ \E cd \in EvalCriteriaLists :
            CreateGroupAndEvaluate("A", "", CourseScope, cd)
    \/ \E g \in GroupIds : EvaluateGroup(g)

Spec == Init /\ [][Next]_vars

(***************************************************************************)
(* SpecEvents: groups are created in the course scope, evaluated and       *)
(* disabled, staff flags and enrollments change on the platform, and       *)
(* events are delivered to the analyzer.                                   *)
(***************************************************************************)
EventCriteriaLists == {<<StaffFalse>>, <<StaffTrue>>, <<ModeHonor>>}

\* The events delivered: staff-status events carrying the subject's id and
\* a staff flag, one without an id, enrollment events, and an event of a
\* type no criterion type subscribes to.
EventInputs ==
    {<<"USER_STAFF_STATUS_CHANGED", [id |-> u, is_staff |-> b]>> :
        u \in Users, b \in BOOLEAN}
    \cup {<<"USER_STAFF_STATUS_CHANGED", [is_staff |-> TRUE]>>}
    \cup {<<"COURSE_ENROLLMENT_CHANGED", [id |-> u, mode |-> "honor"]>> :
            u \in Users}
    \cup {<<"OTHER", [id |-> NumUsers, is_staff |-> TRUE]>>}

NoGroupNamed(name) == ~\E g \in DOMAIN groups : groups[g].name = name

NextEvents ==
    \/ Tick
    \/ \E u \in Users : SetStaff(u)
    \/ \E i \in DOMAIN GroupNames, cd \in EventCriteriaLists :
            /\ NoGroupNamed(GroupNames[i])
            /\ CreateGroup(GroupNames[i], "", CourseScope, cd)
    \/ \E g \in DOMAIN groups : EvaluateGroup(g)
    \/ \E g \in DOMAIN groups :
            /\ groups[g].enabled
            /\ SaveGroup(g, groups[g].name, groups[g].scope, FALSE)
    \/ \E e \in EventInputs : HandleEvent(e[1], e[2])

SpecEvents == Init /\ [][NextEvents]_vars

(***************************************************************************)
(* SpecEnrollmentEvents: users enrol in the course and change their mode,  *)
(* groups with enrollment criteria are created and evaluated, and          *)
(* enrollment events are delivered to the analyzer.                        *)
(***************************************************************************)
EnrollmentCriteriaLists == {<<EnrolledHonor>>, <<EnrolledAudit>>, <<ModeHonor>>}

EnrollmentModes == {"honor", "audit"}

\* Enrollment events: payloads carrying the mode and no date, and payloads
\* carrying a date and no mode.
EnrollmentInputs ==
    {<<"COURSE_ENROLLMENT_CHANGED",
       [id |-> u, mode |-> m, enrollment_date |-> NoneTime]>> :
        u \in Users, m \in EnrollmentModes}
    \cup {<<"COURSE_ENROLLMENT_CHANGED", [id |-> u, enrollment_date |-> 1]>> :
            u \in Users}

NextEnrollmentEvents ==
    \/ \E u \in Users, m \in EnrollmentModes : Enroll(u, "c1", m)
    \/ \E i \in DOMAIN GroupNames, cd \in EnrollmentCriteriaLists :
            /\ NoGroupNamed(GroupNames[i])
            /\ CreateGroup(GroupNames[i], "", CourseScope, cd)
    \/ \E g \in DOMAIN groups : EvaluateGroup(g)
    \/ \E e \in EnrollmentInputs : HandleEvent(e[1], e[2])

SpecEnrollmentEvents == Init /\ [][NextEnrollmentEvents]_vars

(***************************************************************************)
(* SpecCreate: groups are created, with and without evaluation, in course, *)
(* organization and instance scopes from criteria lists that are valid or  *)
(* carry an invalid criterion after a valid one, and existing groups are   *)
(* loaded, modified and saved.                                             *)
(***************************************************************************)
CreateScopes == {CourseScope, OrganizationScope, InstanceScope}

CreateCriteriaLists ==
    {<<StaffFalse>>, <<StaffFalse, EnrolledHonor>>, <<StaffFalse, ModeHonor>>,
     <<StaffFalse, UnknownType>>, <<StaffFalse, BadOperator>>,
     <<StaffFalse, BadConfig>>}

NextCreate ==
    \/ \E i \in DOMAIN GroupNames, scope \in CreateScopes,
          cd \in CreateCriteriaLists :
            CreateGroup(GroupNames[i], "", scope, cd)
    \/ \E i \in DOMAIN GroupNames, scope \in CreateScopes,
          cd \in CreateCriteriaLists :
            CreateGroupAndEvaluate(GroupNames[i], "", scope, cd)
    \/ \E g \in DOMAIN groups, i \in DOMAIN GroupNames, scope_obj \in scopes,
          enabled \in BOOLEAN :
            SaveGroup(g, GroupNames[i], scope_obj, enabled)

SpecCreate == Init /\ [][NextCreate]_vars

(***************************************************************************)
(* Properties.                                                             *)
(***************************************************************************)
Evaluated ==
    \/ lastOp.op = "evaluate_and_update_membership_for_group"
    \/ lastOp.op = "create_group_with_criteria_and_evaluate_membership"

EvaluatedGroup ==
    IF lastOp.op = "evaluate_and_update_membership_for_group"
    THEN lastOp.group_id ELSE lastOp.user_group

\* The users a stored criterion matches on the given backend data.
Matches(db, c, backend, now) ==
    evaluate(criterion_instance(db, c), backend, now).users

\* The users who match every criterion of the group; nobody when the group
\* has no criterion.
MatchAll(db, g, backend, now) ==
    {u \in Users :
        /\ group_criteria(db, g) # <<>>
        /\ \A i \in DOMAIN group_criteria(db, g) :
            u \in Matches(db, group_criteria(db, g)[i], backend, now)}

Members(db, g) == {m.user : m \in usergroupmembership_set(db, g)}

\* C1: after evaluate_and_update_membership_for_group(g) completes, the
\* users holding a membership in g are exactly the users in the
\* intersection of the evaluate() results of g's criteria, and nobody when
\* g has no criteria.
C1_MembershipIsIntersection ==
    (Evaluated /\ lastOp.ok) =>
        Members(DB, EvaluatedGroup) = MatchAll(DB, EvaluatedGroup, Backend, clock)

\* An evaluation has completed for a group with two criteria that match
\* different user sets, and somebody matches both.
C1_Witness ==
    /\ Evaluated /\ lastOp.ok
    /\ Len(group_criteria(DB, EvaluatedGroup)) = 2
    /\ Matches(DB, group_criteria(DB, EvaluatedGroup)[1], Backend, clock)
        # Matches(DB, group_criteria(DB, EvaluatedGroup)[2], Backend, clock)
    /\ Members(DB, EvaluatedGroup) # {}

\* C2: whatever the roster of g was, after
\* evaluate_and_update_membership_for_group(g) every previous member who is
\* not in the computed set has no membership row left, every computed user
\* has one, nobody else has, and g's last_membership_change is the time of
\* the call.
C2_RosterReplaced ==
    [][(lastOp'.op = "evaluate_and_update_membership_for_group" /\ lastOp'.ok)
        => LET g == lastOp'.group_id
               computed == MatchAll(DB, g, Backend, clock)
               after == {m \in memberships' : m.group = g}
           IN  /\ \A m \in usergroupmembership_set(DB, g) :
                    m.user \notin computed
                        => ~\E n \in after : n.user = m.user
               /\ \A u \in computed : \E n \in after : n.user = u
               /\ \A n \in after : n.user \in computed
               /\ groups'[g].last_membership_change = clock
      ]_vars

\* A completed evaluation, later than the group's creation, has dropped a
\* previous member and added a user who was not one.
C2_Witness ==
    /\ lastOp.op = "evaluate_and_update_membership_for_group" /\ lastOp.ok
    /\ lastOp.before \ Members(DB, lastOp.group_id) # {}
    /\ Members(DB, lastOp.group_id) \ lastOp.before # {}
    /\ groups[lastOp.group_id].last_membership_change > 0

(***************************************************************************)
(* Event impact analysis.                                                  *)
(***************************************************************************)
IsEvent(op) == op.op = "orchestrate_user_groups_updates_based_on_events"

\* The subject user id an event payload carries, 0 when it carries none.
Subject(op) == IF "id" \in DOMAIN op.event_data THEN op.event_data["id"] ELSE 0

\* The criterion types subscribed to the event's type.
Subscribed(op) ==
    IF op.event_type \in DOMAIN _event_to_class_map
    THEN {_event_to_class_map[op.event_type][i] :
            i \in DOMAIN _event_to_class_map[op.event_type]}
    ELSE {}

\* The group has a criterion whose type is one of the given types.
HoldsType(g, types) ==
    \E i \in DOMAIN criteria :
        criteria[i].user_group = g /\ criteria[i].criterion_type \in types

ActiveIn(mships, u, g) ==
    \E m \in mships : m.user = u /\ m.group = g /\ m.is_active

\* The event's transition evaluated g and reconciled its roster.
ReconciledNext(g) ==
    /\ {m.user : m \in {n \in memberships' : n.group = g}}
            = MatchAll(DB, g, Backend, clock)
    /\ \A m \in memberships' : m.group = g => m.joined_at = clock
    /\ groups'[g].last_membership_change = clock

\* The event's transition left g's membership rows and g's row as they were.
UntouchedNext(g) ==
    /\ {m \in memberships' : m.group = g} = {m \in memberships : m.group = g}
    /\ groups'[g] = groups[g]

\* C3: an event whose type maps to criterion type X, for a user with no
\* active membership in any enabled group holding an X-typed criterion,
\* makes every enabled group holding an X-typed criterion re-evaluated and
\* reconciled.
C3_NoMembershipReevaluatesAll ==
    [][IsEvent(lastOp') /\ Subject(lastOp') # 0
        => \A X \in Subscribed(lastOp') :
            (~\E g \in DOMAIN groups :
                /\ groups[g].enabled /\ HoldsType(g, {X})
                /\ ActiveIn(memberships, Subject(lastOp'), g))
            => \A g \in DOMAIN groups :
                    groups[g].enabled /\ HoldsType(g, {X})
                        => g \in Range(lastOp'.calls) /\ ReconciledNext(g)
      ]_vars

\* The payload has every key of the configuration, with the same value.
PayloadEqualsConfig(event_data, criterion_config) ==
    \A k \in DOMAIN criterion_config :
        k \in DOMAIN event_data /\ event_data[k] = criterion_config[k]

\* The group's only criterion is one whose configuration the payload equals.
DependsSolelyOnEqual(g, event_data) ==
    /\ Len(group_criteria(DB, g)) = 1
    /\ PayloadEqualsConfig(event_data,
                           group_criteria(DB, g)[1].criterion_config)

ReportsChanged(g, op) ==
    \E i \in DOMAIN criteria :
        /\ criteria[i].user_group = g
        /\ criteria[i].criterion_type \in Subscribed(op)
        /\ check_if_membership_state_changed(op.event_data,
                                             criteria[i].criterion_config)

\* The groups C6 names: (a) the enabled groups with an affected criterion
\* type in which the subject has no active membership, and (b) the
\* subject's enabled groups with an affected criterion reporting "changed".
MarkedGroups(op) ==
    {g \in DOMAIN groups :
        /\ groups[g].enabled
        /\ HoldsType(g, Subscribed(op))
        /\ \/ ~ActiveIn(memberships, Subject(op), g)
           \/ ReportsChanged(g, op)}

\* C6: for an event with a subject user and affected criterion types, the
\* groups re-evaluated are exactly the groups of (a) and (b), and every
\* other group keeps its roster and marker.
C6_ExactlyMarkedGroupsReevaluated ==
    [][IsEvent(lastOp') /\ Subject(lastOp') # 0 /\ Subscribed(lastOp') # {}
        => \A g \in DOMAIN groups :
            IF g \in MarkedGroups(lastOp')
            THEN g \in Range(lastOp'.calls) /\ ReconciledNext(g)
            ELSE g \notin Range(lastOp'.calls) /\ UntouchedNext(g)
      ]_vars

\* C7: an event without a subject user id, or of a type no criterion type
\* subscribes to, re-evaluates no group, changes no membership, group or
\* criterion record, and raises no error.
C7_NoSubjectOrSubscriberIsNoOp ==
    [][IsEvent(lastOp') /\ (Subject(lastOp') = 0 \/ Subscribed(lastOp') = {})
        => /\ lastOp'.ok
           /\ lastOp'.calls = <<>>
           /\ UNCHANGED dbVars
      ]_vars

\* An event without an id, of a subscribed type, was processed while an
\* enabled group with a criterion of an affected type existed.
C7_Witness ==
    /\ IsEvent(lastOp)
    /\ "id" \notin DOMAIN lastOp.event_data
    /\ \E g \in DOMAIN groups :
        /\ groups[g].enabled
        /\ HoldsType(g, Subscribed(lastOp))
        /\ groups[g].last_membership_change < clock

\* Some affected criterion of g has a configuration key that is also in the
\* payload, with a different value.
DiffersOnSharedKey(g, op) ==
    \E i \in DOMAIN criteria :
        /\ criteria[i].user_group = g
        /\ criteria[i].criterion_type \in Subscribed(op)
        /\ \E k \in DOMAIN criteria[i].criterion_config \cap DOMAIN op.event_data :
                op.event_data[k] # criteria[i].criterion_config[k]

\* The subject matches every criterion of g on the current backend data.
SubjectMatches(g, op) == Subject(op) \in MatchAll(DB, g, Backend, clock)

DiffersBeforeAnyMissingKey(g, op) ==
    \E i \in DOMAIN criteria :
        /\ criteria[i].user_group = g
        /\ criteria[i].criterion_type \in Subscribed(op)
        /\ LET keys == items(criteria[i].criterion_config)
           IN  \E n \in DOMAIN keys :
                /\ keys[n] \in DOMAIN op.event_data
                /\ op.event_data[keys[n]]
                        # criteria[i].criterion_config[keys[n]]
                /\ \A m \in 1..(n - 1) : keys[m] \in DOMAIN op.event_data

IsCreate(op) ==
    \/ op.op = "create_group_with_criteria"
    \/ op.op = "create_group_with_criteria_and_evaluate_membership"

\* The scope type of the resource a scope context names.
RequestedScopeType(scope) ==
    CASE scope.content_object.content_type_model = "courseoverview" -> "course"
      [] scope.content_object.content_type_model = "organization" ->
            "organization"
      [] OTHER -> "instance"

\* The type names of the criterion types that declare the course scope only.
CourseOnlyTypes ==
    {"course_enrollment", "enrollment_mode", "enrolled_with_specific_mode"}

\* C8: creating a group in a scope whose type is not course with a
\* criterion of a course-only type fails, and no scope, group, criterion or
\* membership record of the call is persisted.
C8_ScopeMismatchFailsCreation ==
    [][(/\ IsCreate(lastOp')
        /\ RequestedScopeType(lastOp'.scope) # "course"
        /\ \E i \in DOMAIN lastOp'.criteria :
             lastOp'.criteria[i].criterion_type \in CourseOnlyTypes)
       => (~lastOp'.ok /\ UNCHANGED dbVars)
      ]_vars

\* The creation of an instance-scoped group with a valid criterion followed
\* by a course-only criterion has failed on the scope assertion.
C8_Witness ==
    /\ IsCreate(lastOp) /\ ~lastOp.ok
    /\ lastOp.error = "AssertionError"
    /\ RequestedScopeType(lastOp.scope) = "instance"
    /\ Len(lastOp.criteria) = 2
    /\ lastOp.criteria[2].criterion_type \in CourseOnlyTypes

\* The criterion data fails validation for the scope: its type is not
\* registered, its operator is unknown or not among the type's supported
\* operators, its configuration is invalid, or the scope's type is not
\* among the type's scopes.
FailsValidation(data, scope) ==
    LET cls == get_criterion_class_by_type(data.criterion_type)
    IN  \/ cls = NoClass
        \/ /\ cls # NoClass
           /\ \/ data.criterion_operator \notin ComparisonOperator
              \/ /\ supported_operators(cls) # {}
                 /\ data.criterion_operator \notin supported_operators(cls)
              \/ ~ConfigValid(cls, data.criterion_config)
              \/ RequestedScopeType(scope) \notin scopes_of(cls)

\* C9: create_group_with_criteria and
\* create_group_with_criteria_and_evaluate_membership are all-or-nothing: if
\* any criterion of the list fails validation the call fails, and no scope,
\* group, criterion or membership record of the call is persisted.
C9_CreationIsAllOrNothing ==
    [][(/\ IsCreate(lastOp')
        /\ \E i \in DOMAIN lastOp'.criteria :
             FailsValidation(lastOp'.criteria[i], lastOp'.scope))
       => (~lastOp'.ok /\ UNCHANGED dbVars)
      ]_vars

\* A creation with evaluation, of a group that did not exist, has failed on
\* the second criterion of its list after the first one was valid.
C9_Witness ==
    /\ lastOp.op = "create_group_with_criteria_and_evaluate_membership"
    /\ ~lastOp.ok
    /\ Len(lastOp.criteria) = 2
    /\ ~FailsValidation(lastOp.criteria[1], lastOp.scope)
    /\ FailsValidation(lastOp.criteria[2], lastOp.scope)
    /\ ~\E g \in DOMAIN groups : groups[g].name = lastOp.name

\* C10: saving an existing UserGroup after assigning it a different scope
\* fails with an error, and the scope stored for the group is the one
\* stored before the attempt.
C10_ScopeIsImmutable ==
    [][/\ \A g \in DOMAIN groups :
            (g \in DOMAIN groups' /\ groups'[g].scope = groups[g].scope)
       /\ ((lastOp'.op = "UserGroup.save"
                /\ lastOp'.scope # groups[lastOp'.group_id].scope)
            => (~lastOp'.ok /\ lastOp'.error = "ValueError"))
      ]_vars

\* A save of an existing group with another stored scope assigned has been
\* refused.
C10_Witness ==
    /\ lastOp.op = "UserGroup.save" /\ ~lastOp.ok
    /\ lastOp.scope \in scopes
    /\ lastOp.scope # groups[lastOp.group_id].scope

(***************************************************************************)
(* SpecLastLogin: the platform holds users who logged in at various times  *)
(* or never, staff flags change, and last_login criteria are constructed   *)
(* in the instance scope and evaluated, one per supported operator.        *)
(***************************************************************************)
NumLoginUsers == 3
MaxDaysAgo == 3
MaxDays == 2

LoginNow == MaxDaysAgo * TicksPerDay
LoginTimes == {NoLogin} \cup (0..LoginNow)

\* The Scope row that get_or_create_group_and_scope stores for a scope.
ScopeObject(scope) ==
    [name |-> scope.name, description |-> scope.description,
     content_type |-> process_content_object(scope.content_object).content_type,
     object_id |-> process_content_object(scope.content_object).object_id]

LastLoginInstance(operator, days) ==
    CriterionInit("LastLoginCriterion", operator, [days |-> days],
                  ScopeObject(InstanceScope))

InitLastLogin ==
    /\ users \in [1..NumLoginUsers ->
                    [is_staff : {FALSE}, is_superuser : {FALSE},
                     last_login : LoginTimes]]
    /\ enrollments = {}
    /\ scopes = {}
    /\ groups = <<>>
    /\ criteria = <<>>
    /\ memberships = {}
    /\ next_group_id = 1
    /\ group_collections = <<>>
    /\ clock = LoginNow
    /\ _event_to_class_map = get_all_updated_by_events(<<>>)
    /\ lastOp = [op |-> "init"]
    /\ inflight = [w \in Workers |-> Idle]

\* A user is made superuser and staff, or loses both flags.
SetSuperuser(u) ==
    /\ users' = [users EXCEPT ![u].is_staff = ~@, ![u].is_superuser = ~@]
    /\ lastOp' = [op |-> "platform"]
    /\ UNCHANGED <<enrollments, dbVars, clock, _event_to_class_map, inflight>>

\* evaluate() of a last_login criterion with the given days, for every
\* operator the type supports.
EvaluateLastLogin(days) ==
    /\ lastOp' = [op |-> "LastLoginCriterion.evaluate",
                  days |-> days, now |-> clock,
                  results |->
                    [o \in supported_operators("LastLoginCriterion") |->
                        evaluate(LastLoginInstance(o, days), Backend,
                                 clock).users]]
    /\ UNCHANGED <<backendVars, dbVars, clock, _event_to_class_map, inflight>>

NextLastLogin ==
    \/ \E u \in DOMAIN users : SetSuperuser(u)
    \/ \E days \in 0..MaxDays : EvaluateLastLogin(days)

SpecLastLogin == InitLastLogin /\ [][NextLastLogin]_vars

\* The backend users whose last login is at one of the given times.
LoggedInAt(times) ==
    {u \in get_users(Backend, ScopeObject(InstanceScope)) :
        users[u].last_login # NoLogin /\ users[u].last_login \in times}

\* C11: for a last_login criterion with days = N and threshold = now - N
\* days, evaluate() returns exactly the backend users whose last_login is
\* before the threshold for GREATER_THAN, at or before it for
\* GREATER_THAN_OR_EQUAL, after it for LESS_THAN, at or after it for
\* LESS_THAN_OR_EQUAL and equal to it for EQUAL.
C11_LastLoginOperators ==
    lastOp.op = "LastLoginCriterion.evaluate" =>
        LET threshold == lastOp.now - lastOp.days * TicksPerDay
            past == 0..lastOp.now
        IN  /\ lastOp.results[">"] = LoggedInAt({t \in past : t < threshold})
            /\ lastOp.results[">="] = LoggedInAt({t \in past : t <= threshold})
            /\ lastOp.results["<"] = LoggedInAt({t \in past : t > threshold})
            /\ lastOp.results["<="] = LoggedInAt({t \in past : t >= threshold})
            /\ lastOp.results["="] = LoggedInAt({t \in past : t = threshold})

\* Three backend users logged in less than a day, two days and three days
\* ago; with days = 1, GREATER_THAN matched the two-day and three-day users
\* only and LESS_THAN the recent user only.
C11_Witness ==
    /\ lastOp.op = "LastLoginCriterion.evaluate"
    /\ lastOp.days = 1
    /\ \E a, b, c \in get_users(Backend, ScopeObject(InstanceScope)) :
        /\ users[a].last_login = clock - 1
        /\ users[b].last_login = clock - 2 * TicksPerDay
        /\ users[c].last_login = clock - 3 * TicksPerDay
        /\ lastOp.results[">"] = {b, c}
        /\ lastOp.results["<"] = {a}

(***************************************************************************)
(* SpecRoundTrip: a group exists in the course scope; users log in, enrol  *)
(* and change staff status; criteria of every registered class are         *)
(* constructed from an operator and a configuration, serialized and        *)
(* stored as Criterion rows of the group.                                  *)
(***************************************************************************)
MaxStored == 1

Classes == Range(Subclasses)

\* The operators a class accepts (every operator when the class declares
\* none).
AcceptedOperators(cls) ==
    {o \in ComparisonOperator : validate_operator(cls, o)}

\* Configurations for each class: valid ones, and one the class rejects.
RoundTripConfigs(cls) ==
    CASE cls = "ManualCriterion" ->
            {[usernames_or_emails |-> <<"user_2">>],
             [usernames_or_emails |-> <<"user_1@example.com", "user_2">>]}
      [] cls = "LastLoginCriterion" ->
            {[days |-> 0], [days |-> 1], [days |-> 0 - 1]}
      [] cls = "CourseEnrollmentCriterion" ->
            {EmptyDict, [mode |-> "honor"], [enrollment_date |-> 1],
             [mode |-> "audit", enrollment_date |-> 0]}
      [] cls = "EnrollmentModeCriterion" -> {[mode |-> "honor"]}
      [] cls = "UserStaffStatusCriterion" ->
            {[is_staff |-> TRUE], [is_staff |-> FALSE]}

\* Construct the criterion for the group's scope; if the constructor
\* accepts it, store its serialized form as a row of the group.
StoreCriterion(group_id, cls, operator, config) ==
    \E instance \in {CriterionInit(cls, operator, config,
                                   groups[group_id].scope)} :
    \E r \in {IF instance.ok
              THEN Criterion_create(DB, group_id, serialize(instance))
              ELSE Raise(instance.error, DB)} :
        /\ Len(criteria) < MaxStored
        /\ Commit(r.db)
        /\ lastOp' = [op |-> "Criterion.objects.create",
                      group_id |-> group_id,
                      constructed |-> instance.ok,
                      instance |-> instance,
                      row |-> Len(r.db.criteria),
                      ok |-> r.ok, error |-> r.error]
        /\ UNCHANGED <<backendVars, clock, _event_to_class_map, inflight>>

NextRoundTrip ==
    \/ \E u \in Users : SetStaff(u)
    \/ \E u \in Users : Login(u)
    \/ \E u \in Users, m \in EnrollmentModes : Enroll(u, "c1", m)
    \/ /\ NoGroupNamed("A")
       /\ CreateGroup("A", "", CourseScope, <<>>)
    \/ \E g \in DOMAIN groups, cls \in Classes :
        \E operator \in AcceptedOperators(cls) \cup {"~"},
           config \in RoundTripConfigs(cls) :
            StoreCriterion(g, cls, operator, config)

SpecRoundTrip == Init /\ [][NextRoundTrip]_vars

\* C12: for every concrete criterion type, supported operator and valid
\* configuration, the serialized form of the constructed instance is stored,
\* and the stored Criterion reconstructs an instance of the same type,
\* operator and configuration whose evaluate() returns the same users as
\* the original on the same backend data.
C12_SerializeRoundTrip ==
    (lastOp.op = "Criterion.objects.create" /\ lastOp.constructed) =>
        /\ lastOp.ok
        /\ LET stored == criteria[lastOp.row]
               rebuilt == criterion_instance(DB, stored)
           IN  /\ rebuilt.ok
               /\ rebuilt.cls = lastOp.instance.cls
               /\ rebuilt.criterion_operator
                    = lastOp.instance.criterion_operator
               /\ rebuilt.criterion_config = lastOp.instance.criterion_config
               /\ evaluate(rebuilt, Backend, clock)
                    = evaluate(lastOp.instance, Backend, clock)

(***************************************************************************)
(* Concurrent calls of evaluate_and_update_membership_for_group.  Each     *)
(* worker executes the statements of the function one at a time inside its *)
(* transaction.atomic() block, on its own database connection.  The block  *)
(* takes no lock (there is no select_for_update): a statement reads the    *)
(* rows that are committed when it runs, the writes of the block are       *)
(* buffered in the transaction, and they reach the tables together when    *)
(* the block exits.                                                        *)
(*   deleted, inserted, marker : the writes of the transaction             *)
(*   computed : the users the reducer returned                             *)
(*   alone : the roster the call produces when nothing runs beside it      *)
(*   contended : whether a call for the same group was open meanwhile      *)
(*   calls : the number of calls the worker has made                       *)
(***************************************************************************)
InFlight(w) == inflight[w].pc # "idle"

\* The tables once the writes of a transaction are applied.
ApplyWrites(db, txn) ==
    [db EXCEPT
        !.memberships = (@ \ txn.deleted) \cup txn.inserted,
        !.groups[txn.group_id].last_membership_change =
            IF txn.marker = NoneTime THEN @ ELSE txn.marker]

\* A faulty block without a transaction: every statement is committed as
\* soon as it has run.
AutocommitMutant(db, txn, exiting) == ApplyWrites(db, txn)

\* transaction.atomic() as the other connections see it: the tables change
\* when the block exits, not before.
VisibleAfter(db, txn, exiting) ==
    IF exiting THEN ApplyWrites(db, txn) ELSE db

\* with transaction.atomic(): user_group = get_group_by_id(group_id)
BeginEvaluate(w, group_id) ==
    /\ ~InFlight(w)
    /\ inflight[w].calls < MaxCalls
    /\ IF group_id \in DOMAIN groups
       THEN /\ inflight' =
                [v \in Workers |->
                    IF v = w
                    THEN [pc |-> "begun", calls |-> inflight[w].calls + 1,
                          group_id |-> group_id,
                          deleted |-> {}, inserted |-> {},
                          marker |-> NoneTime, computed |-> {},
                          alone |-> {},
                          contended |->
                            \E x \in Workers \ {w} :
                                /\ InFlight(x)
                                /\ inflight[x].group_id = group_id]
                    ELSE IF InFlight(v) /\ inflight[v].group_id = group_id
                    THEN [inflight[v] EXCEPT !.contended = TRUE]
                    ELSE inflight[v]]
            /\ lastOp' = [op |-> "begin", ok |-> TRUE, error |-> ""]
       ELSE /\ UNCHANGED inflight
            /\ lastOp' = [op |-> "begin", ok |-> FALSE,
                          error |-> "DoesNotExist"]
    /\ UNCHANGED <<backendVars, dbVars, clock, _event_to_class_map>>

\* user_group.usergroupmembership_set.all().delete()
DeleteRoster(w) ==
    /\ inflight[w].pc = "begun"
    /\ \E txn \in {[inflight[w] EXCEPT
                    !.pc = "deleted",
                    !.deleted = usergroupmembership_set(
                                    DB, inflight[w].group_id)]} :
        /\ inflight' = [inflight EXCEPT ![w] = txn]
        /\ Commit(VisibleAfter(DB, txn, FALSE))
        /\ lastOp' = [op |-> "statement"]
        /\ UNCHANGED <<backendVars, clock, _event_to_class_map>>

\* bulk_create of one row per user of the combined queryset.  The
\* querysets are lazy: the users are read when the rows are built.  An
\* exception leaves the block and rolls the transaction back.
InsertRoster(w) ==
    /\ inflight[w].pc = "deleted"
    /\ \E c \in {CombineCriteria(DB, inflight[w].group_id, Backend, clock)} :
        \E txn \in {[inflight[w] EXCEPT
                        !.pc = "inserted",
                        !.inserted =
                            {[user |-> u, group |-> inflight[w].group_id,
                              joined_at |-> clock, is_active |-> TRUE] :
                                u \in c.users},
                        !.computed = c.users,
                        !.alone =
                            Members(evaluate_and_update_membership_for_group(
                                        DB, inflight[w].group_id, Backend,
                                        clock).db,
                                    inflight[w].group_id)]} :
            /\ IF c.ok
               THEN /\ inflight' = [inflight EXCEPT ![w] = txn]
                    /\ Commit(VisibleAfter(DB, txn, FALSE))
                    /\ lastOp' = [op |-> "statement"]
               ELSE /\ inflight' = [inflight EXCEPT ![w] =
                                    [Idle EXCEPT !.calls = inflight[w].calls]]
                    /\ UNCHANGED dbVars
                    /\ lastOp' = [op |-> "rollback", ok |-> FALSE,
                                  error |-> c.error]
            /\ UNCHANGED <<backendVars, clock, _event_to_class_map>>

\* user_group.last_membership_change = timezone.now(); user_group.save(...)
SaveMarker(w) ==
    /\ inflight[w].pc = "inserted"
    /\ \E txn \in {[inflight[w] EXCEPT !.pc = "saved", !.marker = clock]} :
        /\ inflight' = [inflight EXCEPT ![w] = txn]
        /\ Commit(VisibleAfter(DB, txn, FALSE))
        /\ lastOp' = [op |-> "statement"]
        /\ UNCHANGED <<backendVars, clock, _event_to_class_map>>

\* The block exits and the transaction commits.
CommitTxn(w) ==
    /\ inflight[w].pc = "saved"
    /\ Commit(VisibleAfter(DB, inflight[w], TRUE))
    /\ inflight' = [inflight EXCEPT ![w] =
                        [Idle EXCEPT !.calls = inflight[w].calls]]
    /\ lastOp' = [op |-> "commit", group_id |-> inflight[w].group_id,
                  computed |-> inflight[w].computed,
                  alone |-> inflight[w].alone,
                  before |-> Members(DB, inflight[w].group_id),
                  contended |-> inflight[w].contended,
                  ok |-> TRUE, error |-> ""]
    /\ UNCHANGED <<backendVars, clock, _event_to_class_map>>

(***************************************************************************)
(* SpecConcurrent: groups are created in the course scope, staff flags     *)
(* change and time passes, and two workers run                             *)
(* evaluate_and_update_membership_for_group for the same or for different  *)
(* groups, their statements interleaved.                                   *)
(***************************************************************************)
ConcurrentCriteriaLists == {<<StaffFalse>>}

NextConcurrent ==
    \/ Tick
    \/ \E u \in Users : SetStaff(u)
    \/ \E i \in DOMAIN GroupNames, cd \in ConcurrentCriteriaLists :
            /\ NoGroupNamed(GroupNames[i])
            /\ CreateGroup(GroupNames[i], "", CourseScope, cd)
    \/ \E w \in Workers, g \in GroupIds : BeginEvaluate(w, g)
    \/ \E w \in Workers : DeleteRoster(w)
    \/ \E w \in Workers : InsertRoster(w)
    \/ \E w \in Workers : SaveMarker(w)
    \/ \E w \in Workers : CommitTxn(w)

SpecConcurrent == Init /\ [][NextConcurrent]_vars

\* C13: when calls of evaluate_and_update_membership_for_group for one
\* group run concurrently, the roster a call leaves on commit is the set
\* it computed, or the roster the other call had committed before it, never
\* a union or mixture of the two.
C13_SameGroupSerialized ==
    (lastOp.op = "commit" /\ lastOp.contended) =>
        \/ Members(DB, lastOp.group_id) = lastOp.computed
        \/ Members(DB, lastOp.group_id) = lastOp.before

\* C14: the roster and the last_membership_change of a group, as the tables
\* show them to every other connection, change only when a call for the
\* group commits, and then the call's delete, its inserts and its marker
\* update take effect together.
C14_SwapAndMarkerAtomic ==
    [][\A g \in DOMAIN groups :
        (\/ {m \in memberships' : m.group = g}
                # {m \in memberships : m.group = g}
         \/ groups'[g].last_membership_change
                # groups[g].last_membership_change)
        => \E w \in Workers :
            /\ inflight[w].pc = "saved"
            /\ inflight[w].group_id = g
            /\ inflight'[w].pc = "idle"
            /\ {m \in memberships' : m.group = g}
                = ({m \in memberships : m.group = g} \ inflight[w].deleted)
                    \cup inflight[w].inserted
            /\ groups'[g].last_membership_change = inflight[w].marker
      ]_vars

\* A call has deleted a non-empty roster and inserted a different one
\* inside its transaction, later than the last commit, and the tables still
\* show the old roster and the old marker.
C14_Witness ==
    \E w \in Workers :
        /\ inflight[w].pc = "saved"
        /\ inflight[w].deleted # {}
        /\ inflight[w].inserted # {}
        /\ inflight[w].deleted \cap inflight[w].inserted = {}
        /\ inflight[w].deleted \subseteq memberships
        /\ inflight[w].inserted \cap memberships = {}
        /\ groups[inflight[w].group_id].last_membership_change
            # inflight[w].marker

\* C15: a call that ran while only calls for other groups were open leaves
\* on commit the roster it would have produced running alone on the same
\* backend data, and the rows and marker of every other group as they were.
C15_DifferentGroupsIndependent ==
    [][(lastOp'.op = "commit" /\ ~lastOp'.contended) =>
        /\ {m.user : m \in {n \in memberships' :
                                n.group = lastOp'.group_id}} = lastOp'.alone
        /\ \A h \in DOMAIN groups \ {lastOp'.group_id} :
            /\ {m \in memberships' : m.group = h}
                = {m \in memberships : m.group = h}
            /\ groups'[h] = groups[h]
      ]_vars

\* A call committed a non-empty roster while a call for another group,
\* which has written a roster of its own, was open.
C15_Witness ==
    /\ lastOp.op = "commit" /\ ~lastOp.contended
    /\ Members(DB, lastOp.group_id) # {}
    /\ \E v \in Workers :
        /\ inflight[v].pc \in {"inserted", "saved"}
        /\ inflight[v].group_id # lastOp.group_id
        /\ inflight[v].inserted # {}

\* Some criterion of the group cannot be evaluated on the current data: its
\* instance cannot be constructed, or its evaluate() yields no queryset.
SomeCriterionFails(g) ==
    \E i \in DOMAIN group_criteria(DB, g) :
        \/ ~criterion_instance(DB, group_criteria(DB, g)[i]).ok
        \/ evaluate(criterion_instance(DB, group_criteria(DB, g)[i]),
                    Backend, clock).none

\* C16: if the evaluation of any criterion of g fails during
\* evaluate_and_update_membership_for_group(g), the call fails with the
\* error and the roster and the record of g are as before the call: the
\* intersection of the criteria that succeeded is not committed.
C16_FailedEvaluationChangesNothing ==
    [][( /\ lastOp'.op = "evaluate_and_update_membership_for_group"
         /\ lastOp'.group_id \in DOMAIN groups
         /\ SomeCriterionFails(lastOp'.group_id) )
        => ( /\ ~lastOp'.ok
             /\ lastOp'.error # ""
             /\ usergroupmembership_set(DB, lastOp'.group_id)
                    = {m \in memberships' : m.group = lastOp'.group_id}
             /\ groups'[lastOp'.group_id] = groups[lastOp'.group_id] )
      ]_vars

\* An evaluation failed for a group that has members, while a criterion of
\* the group that can be evaluated matches a different set of users.
C16_Witness ==
    /\ lastOp.op = "evaluate_and_update_membership_for_group"
    /\ ~lastOp.ok
    /\ lastOp.group_id \in DOMAIN groups
    /\ Members(DB, lastOp.group_id) # {}
    /\ \E i \in DOMAIN group_criteria(DB, lastOp.group_id) :
        LET c == group_criteria(DB, lastOp.group_id)[i]
        IN  /\ criterion_instance(DB, c).ok
            /\ ~evaluate(criterion_instance(DB, c), Backend, clock).none
            /\ Matches(DB, c, Backend, clock) # Members(DB, lastOp.group_id)

(***************************************************************************)
(* SpecBatch: groups are created in the course scope, staff flags change   *)
(* and time passes, and lists of group ids (in either order, with          *)
(* repetitions, with an id no group has) are handed to                     *)
(* evaluate_and_update_membership_for_multiple_groups.                     *)
(***************************************************************************)
BatchCriteriaLists == {<<StaffFalse>>, <<StaffTrue>>, <<ModeHonor>>}

\* The id lists of the calls; MaxGroups + 1 is the id of no group.
BatchInputs ==
    {<<>>} \cup {<<g>> : g \in 1..(MaxGroups + 1)}
    \cup {<<g, h>> : g, h \in 1..(MaxGroups + 1)}

EvaluateGroups(group_ids) ==
    \E r \in {evaluate_and_update_membership_for_multiple_groups(
                DB, group_ids, Backend, clock)} :
        /\ Commit(r.db)
        /\ lastOp' = [op |->
                        "evaluate_and_update_membership_for_multiple_groups",
                      group_ids |-> group_ids, calls |-> r.calls,
                      ok |-> r.ok, error |-> r.error]
        /\ UNCHANGED <<backendVars, clock, _event_to_class_map, inflight>>

NextBatch ==
    \/ Tick
    \/ \E u \in Users : SetStaff(u)
    \/ \E i \in DOMAIN GroupNames, cd \in BatchCriteriaLists :
            /\ NoGroupNamed(GroupNames[i])
            /\ CreateGroup(GroupNames[i], "", CourseScope, cd)
    \/ \E ids \in BatchInputs : EvaluateGroups(ids)

SpecBatch == Init /\ [][NextBatch]_vars

IsBatch(op) ==
    op.op = "evaluate_and_update_membership_for_multiple_groups"

\* C17: if the evaluation of any listed group fails (a criterion that
\* cannot be evaluated, or an id no group has),
\* evaluate_and_update_membership_for_multiple_groups fails with the error
\* and the rosters and records of all listed groups, those processed before
\* the failure included, are as they were before the call.
C17_BatchIsAllOrNothing ==
    [][( /\ IsBatch(lastOp')
         /\ \E i \in DOMAIN lastOp'.group_ids :
                \/ lastOp'.group_ids[i] \notin DOMAIN groups
                \/ SomeCriterionFails(lastOp'.group_ids[i]) )
        => ( /\ ~lastOp'.ok
             /\ lastOp'.error # ""
             /\ \A g \in Range(lastOp'.group_ids) \cap DOMAIN groups :
                    /\ {m \in memberships' : m.group = g}
                        = {m \in memberships : m.group = g}
                    /\ groups'[g] = groups[g] )
      ]_vars

\* A batch failed at its second group after the evaluator had processed the
\* first, whose criteria match other users than its roster holds.
C17_Witness ==
    /\ IsBatch(lastOp) /\ ~lastOp.ok
    /\ Len(lastOp.calls) = 2
    /\ lastOp.calls[1] # lastOp.calls[2]
    /\ MatchAll(DB, lastOp.calls[1], Backend, clock)
        # Members(DB, lastOp.calls[1])

\* C18: when evaluate_and_update_membership_for_multiple_groups succeeds,
\* the roster of each listed group is the intersection of the results of
\* that group's own criteria, whatever the other groups of the list and
\* their order, and the rosters of the groups that are not listed are
\* unchanged.
C18_BatchReconcilesEachListedGroup ==
    [][(IsBatch(lastOp') /\ lastOp'.ok) =>
        \A g \in DOMAIN groups :
            IF g \in Range(lastOp'.group_ids)
            THEN {m.user : m \in {n \in memberships' : n.group = g}}
                    = MatchAll(DB, g, Backend, clock)
            ELSE {m \in memberships' : m.group = g}
                    = {m \in memberships : m.group = g}
      ]_vars

\* A batch listing two groups, the later-created one first, succeeded and
\* left them with different non-empty rosters.
C18_Witness ==
    /\ IsBatch(lastOp) /\ lastOp.ok
    /\ Len(lastOp.group_ids) = 2
    /\ lastOp.group_ids[1] > lastOp.group_ids[2]
    /\ Members(DB, lastOp.group_ids[1]) # {}
    /\ Members(DB, lastOp.group_ids[2]) # {}
    /\ Members(DB, lastOp.group_ids[1]) # Members(DB, lastOp.group_ids[2])

(***************************************************************************)
(* SpecCollection: groups are created in the course scope, staff flags     *)
(* change, groups are evaluated one at a time, a collection is made of     *)
(* some of the groups, and the collection is evaluated.                    *)
(***************************************************************************)
CollectionCriteriaLists == {<<StaffFalse>>, <<ManualTwo>>, <<ModeHonor>>}

CollectionGroupNames == <<"A", "B", "C", "D">>

\* The id lists a collection is created from: the lists in ascending order,
\* one out of order and one naming a group twice; MaxCollectionGroups + 1 is
\* the id of no group.
CollectionInputs ==
    {s \in UNION {[1..n -> 1..(MaxCollectionGroups + 1)] :
                    n \in 0..MaxCollectionGroups} :
        \A i, j \in DOMAIN s : i < j => s[i] < s[j]}
    \cup {<<2, 1>>, <<1, 1>>}

CreateCollectionGroup(criteria_data) ==
    /\ next_group_id <= MaxCollectionGroups
    /\ \E r \in {create_group_with_criteria(
                    DB, CollectionGroupNames[next_group_id], "", CourseScope,
                    criteria_data, clock)} :
        /\ Commit(r.db)
        /\ lastOp' = [op |-> "create_group_with_criteria",
                      name |-> CollectionGroupNames[next_group_id],
                      scope |-> CourseScope, criteria |-> criteria_data,
                      user_group |-> IF r.ok THEN r.user_group ELSE 0,
                      ok |-> r.ok, error |-> r.error]
        /\ UNCHANGED <<backendVars, clock, _event_to_class_map, inflight>>

CreateCollection(group_ids) ==
    /\ Len(group_collections) < MaxCollections
    /\ \E r \in {create_group_collection_and_add_groups(
                    DB, "collection", "", group_ids)} :
        /\ Commit(r.db)
        /\ lastOp' = [op |-> "create_group_collection_and_add_groups",
                      group_ids |-> group_ids,
                      group_collection_id |-> r.group_collection_id,
                      ok |-> r.ok, error |-> r.error]
        /\ UNCHANGED <<backendVars, clock, _event_to_class_map, inflight>>

EvaluateCollection(group_collection_id) ==
    \E order \in IF group_collection_id \in DOMAIN group_collections
                 THEN {o \in [1..Cardinality(
                                group_collections[group_collection_id]
                                    .user_groups)
                              -> group_collections[group_collection_id]
                                    .user_groups] :
                        Range(o) = group_collections[group_collection_id]
                                    .user_groups}
                 ELSE {<<>>} :
    \E r \in {evaluate_and_update_membership_for_group_collection(
                DB, group_collection_id, order, Backend, clock)} :
        /\ Commit(r.db)
        /\ lastOp' = [op |->
                        "evaluate_and_update_membership_for_group_collection",
                      group_collection_id |-> group_collection_id,
                      user_groups |-> Range(order),
                      calls |-> r.calls,
                      duplicates |-> r.duplicates,
                      ok |-> r.ok, error |-> r.error]
        /\ UNCHANGED <<backendVars, clock, _event_to_class_map, inflight>>

NextCollection ==
    \/ \E u \in Users : SetStaff(u)
    \/ \E cd \in CollectionCriteriaLists : CreateCollectionGroup(cd)
    \/ \E g \in 1..MaxCollectionGroups : EvaluateGroup(g)
    \/ \E ids \in CollectionInputs : CreateCollection(ids)
    \/ \E c \in 1..(MaxCollections + 1) : EvaluateCollection(c)

SpecCollection == Init /\ [][NextCollection]_vars

IsCollectionEvaluation(op) ==
    op.op = "evaluate_and_update_membership_for_group_collection"

\* The users the criteria of two different groups of the set match.
MatchTwo(group_ids) ==
    {u \in Users :
        \E g, h \in group_ids :
            /\ g # h
            /\ u \in MatchAll(DB, g, Backend, clock)
            /\ u \in MatchAll(DB, h, Backend, clock)}

\* The users the criteria of every group of the set match.
MatchEvery(group_ids) ==
    {u \in Users :
        /\ group_ids # {}
        /\ \A g \in group_ids : u \in MatchAll(DB, g, Backend, clock)}

\* C19 as stated: evaluate_and_update_membership_for_group_collection
\* reports every user who matches two groups of the collection, and the
\* reported set is non-empty exactly when the intersection of the evaluated
\* memberships of all the groups of the collection is non-empty.
C19_NonEmptyIffIntersectionOfAll ==
    [][(IsCollectionEvaluation(lastOp') /\ lastOp'.ok) =>
        /\ MatchTwo(lastOp'.user_groups) \subseteq lastOp'.duplicates
        /\ (lastOp'.duplicates # {})
            <=> (MatchEvery(lastOp'.user_groups) # {})
      ]_vars

\* C19: evaluate_and_update_membership_for_group_collection reports as
\* duplicates exactly the users who match two different groups of the
\* collection, so the reported set is non-empty exactly when the evaluated
\* memberships of some two groups of the collection intersect.
C19_DuplicatesAreUsersInTwoGroups ==
    [][(IsCollectionEvaluation(lastOp') /\ lastOp'.ok) =>
        /\ lastOp'.duplicates = MatchTwo(lastOp'.user_groups)
        /\ (lastOp'.duplicates # {})
            <=> \E g, h \in lastOp'.user_groups :
                    /\ g # h
                    /\ MatchAll(DB, g, Backend, clock)
                        \cap MatchAll(DB, h, Backend, clock) # {}
      ]_vars

\* A collection of three groups was evaluated and a user matching two of
\* them, and not the third, was reported.
C19_Witness ==
    /\ IsCollectionEvaluation(lastOp) /\ lastOp.ok
    /\ Cardinality(lastOp.user_groups) = 3
    /\ lastOp.duplicates # {}
    /\ \E g \in lastOp.user_groups :
            group_criteria(DB, g) # <<>>
            /\ lastOp.duplicates \cap MatchAll(DB, g, Backend, clock) = {}

\* The users holding a membership in group g after the call.
MembersNext(g) == {m.user : m \in {n \in memberships' : n.group = g}}

\* C20: after evaluate_and_update_membership_for_group_collection returns,
\* no user holds a membership in more than one group of the collection:
\* every duplicate user is out of every group of the collection, the
\* returned set is exactly the set of users removed, each group of the
\* collection keeps its other evaluated members, and the memberships in
\* the groups outside the collection are unchanged.
C20_DuplicatesRemovedFromEveryGroup ==
    [][(IsCollectionEvaluation(lastOp') /\ lastOp'.ok) =>
        /\ \A u \in Users :
            Cardinality({g \in lastOp'.user_groups : u \in MembersNext(g)})
                <= 1
        /\ \A u \in lastOp'.duplicates, g \in lastOp'.user_groups :
            u \notin MembersNext(g)
        /\ lastOp'.duplicates =
            {u \in Users :
                \E g \in lastOp'.user_groups :
                    /\ u \in MatchAll(DB, g, Backend, clock)
                    /\ u \notin MembersNext(g)}
        /\ \A g \in lastOp'.user_groups :
            MembersNext(g) =
                MatchAll(DB, g, Backend, clock) \ lastOp'.duplicates
        /\ \A g \in DOMAIN groups \ lastOp'.user_groups :
            {m \in memberships' : m.group = g}
                = {m \in memberships : m.group = g}
      ]_vars

\* A collection was evaluated with a duplicate removed, a group of the
\* collection keeps a member, and a group outside the collection has one.
C20_Witness ==
    /\ IsCollectionEvaluation(lastOp) /\ lastOp.ok
    /\ lastOp.duplicates # {}
    /\ \E g \in lastOp.user_groups : Members(DB, g) # {}
    /\ \E g \in DOMAIN groups \ lastOp.user_groups :
            lastOp.duplicates \cap Members(DB, g) # {}

(***************************************************************************)
(* SpecDelete: groups are created in the course scope, staff flags change, *)
(* groups are evaluated, staff-status events are processed, and groups     *)
(* are soft-deleted and hard-deleted.                                      *)
(***************************************************************************)
DeleteCriteriaLists == {<<StaffFalse>>, <<StaffTrue>>}

HardDeleteGroup(group_id) ==
    \E r \in {hard_delete_group(DB, group_id)} :
        /\ Commit(r.db)
        /\ lastOp' = [op |-> "hard_delete_group", group_id |-> group_id,
                      criteria |-> group_criteria(DB, group_id),
                      members |-> Members(DB, group_id),
                      ok |-> r.ok, error |-> r.error]
        /\ UNCHANGED <<backendVars, clock, _event_to_class_map, inflight>>

SoftDeleteGroup(group_id) ==
    \E r \in {soft_delete_group(DB, group_id)} :
        /\ Commit(r.db)
        /\ lastOp' = [op |-> "soft_delete_group", group_id |-> group_id,
                      ok |-> r.ok, error |-> r.error]
        /\ UNCHANGED <<backendVars, clock, _event_to_class_map, inflight>>

NextDelete ==
    \/ \E u \in Users : SetStaff(u)
    \/ \E i \in DOMAIN GroupNames, cd \in DeleteCriteriaLists :
            /\ NoGroupNamed(GroupNames[i])
            /\ CreateGroup(GroupNames[i], "", CourseScope, cd)
    \/ \E g \in GroupIds : EvaluateGroup(g)
    \/ \E u \in Users, staff \in BOOLEAN :
            HandleEvent("USER_STAFF_STATUS_CHANGED",
                        [id |-> u, is_staff |-> staff])
    \/ \E g \in 1..(MaxGroups + 1) : SoftDeleteGroup(g)
    \/ \E g \in 1..(MaxGroups + 1) : HardDeleteGroup(g)

SpecDelete == Init /\ [][NextDelete]_vars

\* C21: soft_delete_group(g) clears the enabled flag of g and keeps the
\* criteria and the memberships of g.
C21_SoftDeleteDisablesGroup ==
    [][(lastOp'.op = "soft_delete_group"
            /\ lastOp'.group_id \in DOMAIN groups)
        => ( /\ lastOp'.ok
             /\ lastOp'.group_id \in DOMAIN groups'
             /\ ~groups'[lastOp'.group_id].enabled
             /\ criteria' = criteria
             /\ memberships' = memberships )
      ]_vars

\* C22: hard_delete_group(g) removes g together with all of g's criteria
\* and all of g's memberships, and leaves every other group, its criteria
\* and its memberships as they were.
C22_HardDeleteCascades ==
    [][(lastOp'.op = "hard_delete_group") =>
        /\ lastOp'.ok
        /\ lastOp'.group_id \notin DOMAIN groups'
        /\ \A i \in DOMAIN criteria' :
                criteria'[i].user_group # lastOp'.group_id
        /\ \A m \in memberships' : m.group # lastOp'.group_id
        /\ DOMAIN groups' = DOMAIN groups \ {lastOp'.group_id}
        /\ \A h \in DOMAIN groups' :
            /\ groups'[h] = groups[h]
            /\ SelectSeq(criteria', LAMBDA c : c.user_group = h)
                = SelectSeq(criteria, LAMBDA c : c.user_group = h)
            /\ {m \in memberships' : m.group = h}
                = {m \in memberships : m.group = h}
      ]_vars

\* A group with a criterion and a member was hard-deleted while another
\* group has a criterion and a member.
C22_Witness ==
    /\ lastOp.op = "hard_delete_group" /\ lastOp.ok
    /\ lastOp.criteria # <<>>
    /\ lastOp.members # {}
    /\ \E h \in DOMAIN groups :
        /\ group_criteria(DB, h) # <<>>
        /\ Members(DB, h) # {}

(***************************************************************************)
(* SpecGetOrCreate: get_or_create_group_and_scope is called with group     *)
(* names, group descriptions and scopes (two resources, and one resource   *)
(* under two scope descriptions), and groups are renamed.                  *)
(***************************************************************************)
Descriptions == {"", "other"}

DescribedCourseScope == [CourseScope EXCEPT !.description = "other"]

GetOrCreateScopes == {CourseScope, DescribedCourseScope, OrganizationScope}

GetOrCreate(name, description, scope) ==
    \E r \in {get_or_create_group_and_scope(DB, name, description, scope,
                                           clock)} :
        /\ r.db.next_group_id <= MaxGroups + 1
        /\ Commit(r.db)
        /\ lastOp' = [op |-> "get_or_create_group_and_scope",
                      name |-> name, description |-> description,
                      scope |-> scope,
                      user_group |-> IF r.ok THEN r.user_group ELSE 0,
                      ok |-> r.ok, error |-> r.error]
        /\ UNCHANGED <<backendVars, clock, _event_to_class_map, inflight>>

NextGetOrCreate ==
    \/ \E i \in DOMAIN GroupNames, d \in Descriptions,
          scope \in GetOrCreateScopes :
            GetOrCreate(GroupNames[i], d, scope)
    \/ \E g \in DOMAIN groups, i \in DOMAIN GroupNames :
            SaveGroup(g, GroupNames[i], groups[g].scope, groups[g].enabled)

SpecGetOrCreate == Init /\ [][NextGetOrCreate]_vars

IsGetOrCreate(op) == op.op = "get_or_create_group_and_scope"

\* The stored scope has the name and the resource of the requested scope.
SameScopeKey(scope_obj, scope) ==
    /\ scope_obj.name = scope.name
    /\ scope_obj.content_type.model = scope.content_object.content_type_model
    /\ scope_obj.object_id = scope.content_object.object_id

\* The Scope row the call looks up or creates.
RequestedScopeRow(scope) ==
    [name |-> scope.name, description |-> scope.description,
     content_type |->
        process_content_object(scope.content_object).content_type,
     object_id |-> process_content_object(scope.content_object).object_id]

\* C23: get_or_create_group_and_scope called with the name of a stored
\* group and the name and resource of that group's scope returns the
\* stored group and creates no group and no scope, whatever the
\* descriptions passed.
C23_GetOrCreateKeyedOnNameAndScope ==
    [][\A g \in DOMAIN groups :
        ( /\ IsGetOrCreate(lastOp')
          /\ groups[g].name = lastOp'.name
          /\ SameScopeKey(groups[g].scope, lastOp'.scope) )
        => ( /\ lastOp'.ok
             /\ lastOp'.user_group = g
             /\ groups' = groups
             /\ scopes' = scopes )
      ]_vars

\* C24: in every state no two groups have the same name in the same scope;
\* a call that would create a second group with the name and the scope of
\* a stored one fails and leaves the groups unchanged, and a call with a
\* name no group of the requested scope has creates the group.
C24_NameUniqueWithinScope ==
    [][ /\ \A g, h \in DOMAIN groups' :
            (groups'[g].name = groups'[h].name
                /\ groups'[g].scope = groups'[h].scope) => g = h
        /\ IsGetOrCreate(lastOp') =>
            IF \E g \in DOMAIN groups :
                    /\ groups[g].name = lastOp'.name
                    /\ groups[g].scope = RequestedScopeRow(lastOp'.scope)
            THEN \/ groups' = groups /\ lastOp'.ok
                                     /\ groups[lastOp'.user_group].description
                                            = lastOp'.description
                 \/ groups' = groups /\ lastOp'.error = "IntegrityError"
            ELSE /\ lastOp'.ok
                 /\ lastOp'.user_group \notin DOMAIN groups
                 /\ groups' = groups @@ (lastOp'.user_group :>
                                            groups'[lastOp'.user_group])
                 /\ groups'[lastOp'.user_group].name = lastOp'.name
                 /\ groups'[lastOp'.user_group].scope
                        = RequestedScopeRow(lastOp'.scope)
      ]_vars

\* An attempt to create a second group with a stored name and scope has
\* just failed, while two groups of one name exist in different scopes.
C24_Witness ==
    /\ IsGetOrCreate(lastOp) /\ lastOp.error = "IntegrityError"
    /\ \E g, h \in DOMAIN groups :
        /\ g # h
        /\ groups[g].name = groups[h].name
        /\ groups[g].scope # groups[h].scope

(***************************************************************************)
(* SpecConstruct: type names are resolved, criteria are constructed from   *)
(* every class, operator string, raw configuration and scope below, and    *)
(* groups are created from criteria data with and without a type name the  *)
(* registry does not hold.                                                 *)
(***************************************************************************)
TypeNames == DOMAIN _criterion_registry \cup {"bogus", ""}

OperatorStrings == ComparisonOperator \cup {"~", "=="}

\* Raw configurations: valid ones, ones with a field missing, a negative
\* days, an empty list, and one with a key the model does not declare.
RawConfigs(cls) ==
    CASE cls = "ManualCriterion" ->
            {EmptyDict, [usernames_or_emails |-> <<>>],
             [usernames_or_emails |-> <<"user_2">>],
             [usernames_or_emails |-> <<"user_1", "user_2">>, days |-> 1]}
      [] cls = "LastLoginCriterion" ->
            {EmptyDict, [days |-> 0 - 1], [days |-> 0], [days |-> 1],
             [mode |-> "honor"]}
      [] cls = "CourseEnrollmentCriterion" ->
            {EmptyDict, [mode |-> "honor"], [enrollment_date |-> 1],
             [days |-> 1]}
      [] cls = "EnrollmentModeCriterion" ->
            {EmptyDict, [mode |-> "honor"], [is_staff |-> TRUE]}
      [] cls = "UserStaffStatusCriterion" ->
            {EmptyDict, [is_staff |-> TRUE], [is_staff |-> FALSE],
             [mode |-> "honor"]}

UnknownTypeCriteriaLists ==
    {<<StaffFalse>>, <<UnknownType>>, <<StaffFalse, UnknownType>>}

ResolveType(criterion_type) ==
    /\ lastOp' = [op |-> "CriterionManager.get_criterion_class_by_type",
                  criterion_type |-> criterion_type,
                  result |-> get_criterion_class_by_type(criterion_type),
                  ok |-> TRUE, error |-> ""]
    /\ UNCHANGED <<backendVars, dbVars, clock, _event_to_class_map, inflight>>

Construct(cls, operator, config, scope) ==
    \E r \in {CriterionInit(cls, operator, config, ScopeObject(scope))} :
        /\ lastOp' = [op |-> "BaseCriterionType.__init__",
                      cls |-> cls, criterion_operator |-> operator,
                      criterion_config |-> config, scope |-> scope,
                      ok |-> r.ok, error |-> r.error]
        /\ UNCHANGED <<backendVars, dbVars, clock, _event_to_class_map,
                       inflight>>

NextConstruct ==
    \/ \E t \in TypeNames : ResolveType(t)
    \/ \E cls \in Classes, operator \in OperatorStrings, scope \in CreateScopes :
        \E config \in RawConfigs(cls) :
            Construct(cls, operator, config, scope)
    \/ \E i \in DOMAIN GroupNames, cd \in UnknownTypeCriteriaLists :
            /\ NoGroupNamed(GroupNames[i])
            /\ CreateGroup(GroupNames[i], "", CourseScope, cd)

SpecConstruct == Init /\ [][NextConstruct]_vars

IsConstruct(op) == op.op = "BaseCriterionType.__init__"

\* C25: resolving a type name the registry does not hold fails with an
\* unknown-criterion-type error, and creating a group with a criterion of
\* such a type fails and stores nothing.
C25_UnknownTypeIsAnError ==
    [][ /\ ( /\ lastOp'.op = "CriterionManager.get_criterion_class_by_type"
             /\ lastOp'.criterion_type \notin DOMAIN _criterion_registry )
            => (~lastOp'.ok /\ lastOp'.error = "UnknownCriterionType")
        /\ ( /\ IsCreate(lastOp')
             /\ \E i \in DOMAIN lastOp'.criteria :
                    lastOp'.criteria[i].criterion_type
                        \notin DOMAIN _criterion_registry )
            => (~lastOp'.ok /\ UNCHANGED dbVars)
      ]_vars

\* The operators the types declare.
DeclaredOperators(cls) ==
    CASE cls = "ManualCriterion" -> {"in", "not_in"}
      [] cls = "LastLoginCriterion" -> {"=", "!=", ">", ">=", "<", "<="}
      [] cls = "EnrollmentModeCriterion" -> {"=", "!="}
      [] cls = "CourseEnrollmentCriterion" ->
            {"in", "not_in", "=", "!=", ">", ">=", "<", "<="}
      [] OTHER -> ComparisonOperator

\* The raw configuration satisfies the schema of the type.
SatisfiesSchema(cls, config) ==
    CASE cls = "ManualCriterion" ->
            /\ "usernames_or_emails" \in DOMAIN config
            /\ config.usernames_or_emails # <<>>
      [] cls = "LastLoginCriterion" ->
            "days" \in DOMAIN config /\ ~(config.days < 0)
      [] cls = "EnrollmentModeCriterion" -> "mode" \in DOMAIN config
      [] cls = "UserStaffStatusCriterion" -> "is_staff" \in DOMAIN config
      [] OTHER -> TRUE

\* C26: constructing a criterion fails unless the operator string is one of
\* the twelve comparison operators and is among the operators the type
\* declares (manual: in, not_in; last_login: =, !=, >, >=, <, <=;
\* enrollment_mode: =, !=; course_enrollment: in, not_in, =, !=, >, >=, <,
\* <=); an operator the type declares never makes the construction fail.
C26_OperatorMustBeSupported ==
    IsConstruct(lastOp) =>
        /\ Cardinality(ComparisonOperator) = 12
        /\ lastOp.ok =>
            /\ lastOp.criterion_operator \in ComparisonOperator
            /\ lastOp.criterion_operator \in DeclaredOperators(lastOp.cls)
        /\ ( /\ lastOp.criterion_operator \in ComparisonOperator
             /\ lastOp.criterion_operator \in DeclaredOperators(lastOp.cls) )
            => ( /\ lastOp.error # "ValueError"
                 /\ ( /\ SatisfiesSchema(lastOp.cls, lastOp.criterion_config)
                      /\ RequestedScopeType(lastOp.scope)
                            \in scopes_of(lastOp.cls) )
                    => lastOp.ok )

\* A construction with a valid configuration failed on an operator that is
\* one of the twelve but not among those the type declares.
C26_Witness ==
    /\ IsConstruct(lastOp) /\ lastOp.error = "ValueError"
    /\ lastOp.criterion_operator \in ComparisonOperator
    /\ lastOp.criterion_operator \notin DeclaredOperators(lastOp.cls)
    /\ SatisfiesSchema(lastOp.cls, lastOp.criterion_config)

\* C27: constructing a criterion from a raw configuration fails with a
\* configuration error when the configuration violates the schema of the
\* type (manual with an empty or missing usernames_or_emails list,
\* last_login with days missing or negative, enrollment_mode without mode,
\* user_staff_status without is_staff), and the configuration of every
\* configuration that satisfies the schema is accepted.
C27_ConfigMustSatisfySchema ==
    IsConstruct(lastOp) =>
        /\ ~SatisfiesSchema(lastOp.cls, lastOp.criterion_config)
            => (~lastOp.ok /\ lastOp.error = "ValidationError")
        /\ SatisfiesSchema(lastOp.cls, lastOp.criterion_config)
            => lastOp.error # "ValidationError"
        /\ ( /\ SatisfiesSchema(lastOp.cls, lastOp.criterion_config)
             /\ lastOp.criterion_operator \in DeclaredOperators(lastOp.cls)
             /\ RequestedScopeType(lastOp.scope) \in scopes_of(lastOp.cls) )
            => lastOp.ok

\* A last_login criterion with a negative days was refused, its operator
\* being one the type declares.
C27_Witness ==
    /\ IsConstruct(lastOp) /\ lastOp.error = "ValidationError"
    /\ lastOp.cls = "LastLoginCriterion"
    /\ "days" \in DOMAIN lastOp.criterion_config
    /\ lastOp.criterion_config.days < 0
    /\ lastOp.criterion_operator \in DeclaredOperators(lastOp.cls)

\* C28: evaluate() of an enrollment_mode criterion raises a not-implemented
\* error or returns an empty user set, so that evaluating a group that has
\* an enrollment_mode criterion fails with that error or leaves the group
\* with an empty roster.
C28_EnrollmentModeStubIsExplicit ==
    ( /\ lastOp.op = "evaluate_and_update_membership_for_group"
      /\ lastOp.group_id \in DOMAIN groups
      /\ \E i \in DOMAIN group_criteria(DB, lastOp.group_id) :
            group_criteria(DB, lastOp.group_id)[i].criterion_type
                = "enrollment_mode" )
    => ( /\ \A i \in DOMAIN group_criteria(DB, lastOp.group_id) :
              group_criteria(DB, lastOp.group_id)[i].criterion_type
                    = "enrollment_mode"
              => ~evaluate(criterion_instance(
                            DB, group_criteria(DB, lastOp.group_id)[i]),
                           Backend, clock).none
         /\ \/ ~lastOp.ok /\ lastOp.error = "NotImplementedError"
            \/ lastOp.ok /\ Members(DB, lastOp.group_id) = {} )

(***************************************************************************)
(* SpecStored: groups are created from lists of criteria data (none, one,  *)
(* several, one under the second name the registry holds for the           *)
(* enrollment-mode class), staff flags change and groups are evaluated.    *)
(***************************************************************************)
StoredCriteriaLists ==
    {<<>>, <<StaffFalse>>, <<StaffFalse, LoginOlder>>, <<ManualTwo, ManualTwo>>,
     <<AliasModeHonor>>, <<StaffFalse, BadOperator>>}

NextStored ==
    \/ \E u \in Users : SetStaff(u)
    \/ \E i \in DOMAIN GroupNames, cd \in StoredCriteriaLists :
            CreateGroup(GroupNames[i], "", CourseScope, cd)
    \/ \E g \in GroupIds : EvaluateGroup(g)

SpecStored == Init /\ [][NextStored]_vars

\* create_group_with_criteria has just succeeded and made a group.
CreatedNewGroup ==
    /\ lastOp'.op = "create_group_with_criteria"
    /\ lastOp'.ok
    /\ lastOp'.user_group \notin DOMAIN groups

\* The rows stored for the new group carry the operators and the validated
\* configurations of the entries of the list, one row per entry.
StoredPerEntry ==
    LET stored == SelectSeq(criteria',
                    LAMBDA c : c.user_group = lastOp'.user_group)
    IN  /\ Len(stored) = Len(lastOp'.criteria)
        /\ \A i \in DOMAIN stored :
            /\ stored[i].criterion_operator
                = lastOp'.criteria[i].criterion_operator
            /\ stored[i].criterion_config
                = ConfigModel(
                    get_criterion_class_by_type(
                        lastOp'.criteria[i].criterion_type),
                    lastOp'.criteria[i].criterion_config)

\* C29 as stated: after create_group_with_criteria succeeds for a new
\* group, the group is enabled, has one stored criterion per entry of the
\* list with the given type, operator and validated configuration, and
\* has no membership.
C29_StoredWithGivenType ==
    [][CreatedNewGroup =>
        /\ groups'[lastOp'.user_group].enabled
        /\ StoredPerEntry
        /\ \A i \in DOMAIN lastOp'.criteria :
            SelectSeq(criteria', LAMBDA c :
                c.user_group = lastOp'.user_group)[i].criterion_type
                = lastOp'.criteria[i].criterion_type
        /\ ~\E m \in memberships' : m.group = lastOp'.user_group
      ]_vars

\* C29: after create_group_with_criteria succeeds for a new group, the
\* group is enabled, has one stored criterion per entry of the list with
\* the given operator and validated configuration and with the
\* criterion_type of the class the given type name resolves to, and has no
\* membership.
C29_StoredWithResolvedType ==
    [][CreatedNewGroup =>
        /\ groups'[lastOp'.user_group].enabled
        /\ StoredPerEntry
        /\ \A i \in DOMAIN lastOp'.criteria :
            SelectSeq(criteria', LAMBDA c :
                c.user_group = lastOp'.user_group)[i].criterion_type
                = ClassCriterionType(get_criterion_class_by_type(
                    lastOp'.criteria[i].criterion_type))
        /\ ~\E m \in memberships' : m.group = lastOp'.user_group
      ]_vars

\* A second group has just been created with two criteria while the first
\* group has members.
C29_Witness ==
    /\ lastOp.op = "create_group_with_criteria" /\ lastOp.ok
    /\ lastOp.user_group = next_group_id - 1
    /\ Len(lastOp.criteria) = 2
    /\ Len(group_criteria(DB, lastOp.user_group)) = 2
    /\ \E g \in DOMAIN groups :
        g # lastOp.user_group /\ Members(DB, g) # {}

(***************************************************************************)
(* SpecPartition: groups are created, evaluated, disabled and enabled,     *)
(* memberships are deactivated, and the partition scheme is asked for the  *)
(* groups of a user with the course flag on or off.                        *)
(***************************************************************************)
\* UserGroup.objects.filter(enabled=True) under Meta.ordering = ["name"],
\* groups of one name by id.
RECURSIVE EnabledGroups(_, _)
EnabledGroups(db, names) ==
    IF names = <<>> THEN <<>>
    ELSE SetToList({g \in DOMAIN db.groups :
                        db.groups[g].enabled
                        /\ db.groups[g].name = Head(names)},
                   1, db.next_group_id)
         \o EnabledGroups(db, Tail(names))

\* Group(id, name)
Group(db, group_id) == [id |-> group_id, name |-> db.groups[group_id].name]

\* A faulty scheme that counts the inactive memberships too.
AnyMembershipRowMutant(db, flag_enabled, masquerading, user) ==
    IF ~flag_enabled THEN [none |-> TRUE, masquerade |-> FALSE]
    ELSE IF masquerading THEN [none |-> FALSE, masquerade |-> TRUE]
    ELSE IF {m.group : m \in {n \in db.memberships : n.user = user}} = {}
    THEN [none |-> TRUE, masquerade |-> FALSE]
    ELSE [none |-> FALSE, masquerade |-> FALSE,
          groups |->
            [i \in DOMAIN SelectSeq(EnabledGroups(db, GroupNames),
                LAMBDA g : g \in {m.group : m \in
                    {n \in db.memberships : n.user = user}}) |->
                Group(db, SelectSeq(EnabledGroups(db, GroupNames),
                    LAMBDA g : g \in {m.group : m \in
                        {n \in db.memberships : n.user = user}})[i])]]

\* UserGroupPartitionScheme.get_group_for_user.  flag_enabled is
\* is_user_groups_enabled(course_key); masquerading is
\* get_course_masquerade(...) and not is_masquerading_as_specific_student(
\* ...), in which case the platform's masquerading group is returned.
get_group_for_user(db, flag_enabled, masquerading, user) ==
    LET user_group_ids ==
            {m.group : m \in {n \in db.memberships :
                                n.user = user /\ n.is_active}}
        user_groups == SelectSeq(EnabledGroups(db, GroupNames),
                                 LAMBDA g : g \in user_group_ids)
    IN  IF ~flag_enabled THEN [none |-> TRUE, masquerade |-> FALSE]
        ELSE IF masquerading THEN [none |-> FALSE, masquerade |-> TRUE]
        ELSE IF user_group_ids = {}
        THEN [none |-> TRUE, masquerade |-> FALSE]
        ELSE [none |-> FALSE, masquerade |-> FALSE,
              groups |-> [i \in DOMAIN user_groups |->
                            Group(db, user_groups[i])]]

\* membership.is_active = False; membership.save()
DeactivateMembership(user, group_id) ==
    /\ \E m \in memberships :
            m.user = user /\ m.group = group_id /\ m.is_active
    /\ memberships' =
        {IF m.user = user /\ m.group = group_id
         THEN [m EXCEPT !.is_active = FALSE] ELSE m : m \in memberships}
    /\ lastOp' = [op |-> "UserGroupMembership.save", user |-> user,
                  group_id |-> group_id]
    /\ UNCHANGED <<backendVars, scopes, groups, criteria, next_group_id,
                   group_collections, clock, _event_to_class_map, inflight>>

GetGroupForUser(flag_enabled, masquerading, user) ==
    \E r \in {get_group_for_user(DB, flag_enabled, masquerading, user)} :
        /\ lastOp' = [op |-> "UserGroupPartitionScheme.get_group_for_user",
                      flag_enabled |-> flag_enabled,
                      masquerading |-> masquerading,
                      user |-> user, result |-> r]
        /\ UNCHANGED <<backendVars, dbVars, clock, _event_to_class_map,
                       inflight>>

NextPartition ==
    \/ \E i \in DOMAIN GroupNames :
            /\ NoGroupNamed(GroupNames[i])
            /\ CreateGroup(GroupNames[i], "", CourseScope, <<StaffFalse>>)
    \/ \E g \in GroupIds : EvaluateGroup(g)
    \/ \E g \in DOMAIN groups :
            SaveGroup(g, groups[g].name, groups[g].scope, ~groups[g].enabled)
    \/ \E u \in Users, g \in GroupIds : DeactivateMembership(u, g)
    \/ \E flag_enabled \in BOOLEAN, masquerading \in BOOLEAN, u \in Users :
            GetGroupForUser(flag_enabled, masquerading, u)

SpecPartition == Init /\ [][NextPartition]_vars

\* The enabled groups in which the user has an active membership.
ActiveEnabledGroups(user) ==
    {g \in DOMAIN groups :
        /\ groups[g].enabled
        /\ \E m \in memberships :
            m.user = user /\ m.group = g /\ m.is_active}

HasActiveMembership(user) ==
    \E m \in memberships : m.user = user /\ m.is_active

\* C30: get_group_for_user returns None when the flag is disabled for the
\* course or the user has no active membership; otherwise, when nobody is
\* masquerading, it returns exactly the enabled groups in which the user
\* has an active membership, each once and under its id and name: inactive
\* memberships and disabled groups are left out, and a user whose active
\* memberships are all in disabled groups gets an empty list.
C30_GroupsOfUser ==
    (lastOp.op = "UserGroupPartitionScheme.get_group_for_user") =>
        /\ ~lastOp.flag_enabled => lastOp.result.none
        /\ (lastOp.flag_enabled /\ ~lastOp.masquerading
                /\ ~HasActiveMembership(lastOp.user))
            => lastOp.result.none
        /\ (lastOp.flag_enabled /\ ~lastOp.masquerading
                /\ HasActiveMembership(lastOp.user))
            => /\ ~lastOp.result.none
               /\ {x.id : x \in Range(lastOp.result.groups)}
                    = ActiveEnabledGroups(lastOp.user)
               /\ Len(lastOp.result.groups)
                    = Cardinality(ActiveEnabledGroups(lastOp.user))
               /\ \A x \in Range(lastOp.result.groups) :
                    x.name = groups[x.id].name

\* The scheme answered with an empty list for a user whose active
\* membership is in a disabled group and whose membership in an enabled
\* group is inactive.
C30_Witness ==
    /\ lastOp.op = "UserGroupPartitionScheme.get_group_for_user"
    /\ lastOp.flag_enabled /\ ~lastOp.masquerading
    /\ ~lastOp.result.none
    /\ lastOp.result.groups = <<>>
    /\ \E m \in memberships :
        m.user = lastOp.user /\ m.is_active /\ ~groups[m.group].enabled
    /\ \E m \in memberships :
        m.user = lastOp.user /\ ~m.is_active /\ groups[m.group].enabled

(***************************************************************************)
(* processors/user_group_partition_groups.py: the course outline           *)
(* processor.  A restriction (user_partition_groups) maps a partition id   *)
(* to the set of group ids the item is restricted to.  The processor's     *)
(* user_groups field holds the empty dict after construction, None or a    *)
(* list of Group after load_data.                                          *)
(***************************************************************************)
USER_GROUP_PARTITION_ID == 1000000000
OtherPartitionId == 999

\* __init__: self.user_groups = {}
NoUserGroups == [kind |-> "dict", groups |-> <<>>]
NoneUserGroups == [kind |-> "None", groups |-> <<>>]

\* load_data: with the flag off the field is left alone; otherwise it is
\* get_user_partition_groups(...).get(USER_GROUP_PARTITION_ID), which is
\* what the scheme's get_group_for_user returned for the user, and None
\* when that was None.
load_data(db, flag_enabled, user, user_groups) ==
    IF ~flag_enabled THEN user_groups
    ELSE IF get_group_for_user(db, flag_enabled, FALSE, user).none
    THEN NoneUserGroups
    ELSE [kind |-> "list",
          groups |-> get_group_for_user(db, flag_enabled, FALSE, user).groups]

\* _is_user_excluded_by_partition_group.  Iterating None raises TypeError.
_is_user_excluded_by_partition_group(flag_enabled, user_groups, user_partition_groups) ==
    IF ~flag_enabled THEN [ok |-> TRUE, error |-> "", result |-> FALSE]
    ELSE IF DOMAIN user_partition_groups = {}
    THEN [ok |-> TRUE, error |-> "", result |-> FALSE]
    ELSE IF USER_GROUP_PARTITION_ID \notin DOMAIN user_partition_groups
    THEN [ok |-> TRUE, error |-> "", result |-> FALSE]
    ELSE IF user_partition_groups[USER_GROUP_PARTITION_ID] = {}
    THEN [ok |-> TRUE, error |-> "", result |-> FALSE]
    ELSE IF user_groups.kind = "None"
    THEN [ok |-> FALSE, error |-> "TypeError", result |-> FALSE]
    ELSE [ok |-> TRUE, error |-> "",
          result |-> ~\E i \in DOMAIN user_groups.groups :
                        user_groups.groups[i].id
                            \in user_partition_groups[USER_GROUP_PARTITION_ID]]

\* The inner loop of usage_keys_to_remove over section.sequences.
RECURSIVE RemoveSequences(_, _, _, _)
RemoveSequences(flag_enabled, user_groups, sequences, remove_all_children) ==
    IF sequences = <<>> THEN [ok |-> TRUE, error |-> "", keys |-> {}]
    ELSE LET seq == Head(sequences)
             excluded ==
                IF remove_all_children
                THEN [ok |-> TRUE, error |-> "", result |-> TRUE]
                ELSE _is_user_excluded_by_partition_group(
                        flag_enabled, user_groups, seq.user_partition_groups)
             rest == RemoveSequences(flag_enabled, user_groups,
                                     Tail(sequences), remove_all_children)
         IN  IF ~excluded.ok
             THEN [ok |-> FALSE, error |-> excluded.error, keys |-> {}]
             ELSE IF ~rest.ok THEN rest
             ELSE [ok |-> TRUE, error |-> "",
                   keys |-> (IF excluded.result THEN {seq.usage_key} ELSE {})
                                \cup rest.keys]

\* The outer loop of usage_keys_to_remove over full_course_outline.sections.
RECURSIVE RemoveSections(_, _, _)
RemoveSections(flag_enabled, user_groups, sections) ==
    IF sections = <<>> THEN [ok |-> TRUE, error |-> "", keys |-> {}]
    ELSE LET section == Head(sections)
             excluded == _is_user_excluded_by_partition_group(
                        flag_enabled, user_groups,
                        section.user_partition_groups)
             children == RemoveSequences(flag_enabled, user_groups,
                                         section.sequences, excluded.result)
             rest == RemoveSections(flag_enabled, user_groups, Tail(sections))
         IN  IF ~excluded.ok
             THEN [ok |-> FALSE, error |-> excluded.error, keys |-> {}]
             ELSE IF ~children.ok THEN children
             ELSE IF ~rest.ok THEN rest
             ELSE [ok |-> TRUE, error |-> "",
                   keys |-> (IF excluded.result THEN {section.usage_key}
                             ELSE {})
                                \cup children.keys \cup rest.keys]

usage_keys_to_remove(flag_enabled, user_groups, full_course_outline) ==
    RemoveSections(flag_enabled, user_groups, full_course_outline.sections)

(***************************************************************************)
(* SpecOutline: groups are created and evaluated, and the outline          *)
(* processor is constructed for a user, optionally loads its data, and is  *)
(* asked for the usage keys to remove from an outline.                     *)
(***************************************************************************)
OutlineCriteriaLists == {<<StaffFalse>>}

\* No restriction at all, a restriction of the user-group partition to any
\* set of groups (the empty set included), a restriction of another
\* partition only.
Restrictions ==
    {EmptyDict}
        \cup {USER_GROUP_PARTITION_ID :> s : s \in SUBSET GroupIds}
        \cup {OtherPartitionId :> {1}}

Sequence(usage_key, user_partition_groups) ==
    [usage_key |-> usage_key, user_partition_groups |-> user_partition_groups]

Section(usage_key, user_partition_groups, sequences) ==
    [usage_key |-> usage_key, user_partition_groups |-> user_partition_groups,
     sequences |-> sequences]

\* Outlines of no section, of one section with two sequences, and of that
\* section followed by a restricted section with one sequence.
Outlines ==
    LET first == {Section("section1", r, <<Sequence("seq1", a),
                                          Sequence("seq2", EmptyDict)>>) :
                    r \in Restrictions,
                    a \in {EmptyDict, USER_GROUP_PARTITION_ID :> {1},
                           USER_GROUP_PARTITION_ID :> {2}}}
        second == Section("section2", USER_GROUP_PARTITION_ID :> {2},
                          <<Sequence("seq3", EmptyDict)>>)
    IN  {[sections |-> <<>>]}
            \cup {[sections |-> <<s>>] : s \in first}
            \cup {[sections |-> <<s, second>>] : s \in first}

ProcessOutline(flag_enabled, load, user, full_course_outline) ==
    \E user_groups \in {IF load
                        THEN load_data(DB, flag_enabled, user, NoUserGroups)
                        ELSE NoUserGroups} :
    \E r \in {usage_keys_to_remove(flag_enabled, user_groups,
                                   full_course_outline)} :
        /\ lastOp' = [op |-> "usage_keys_to_remove",
                      flag_enabled |-> flag_enabled, loaded |-> load,
                      user |-> user, outline |-> full_course_outline,
                      user_groups |-> user_groups,
                      ok |-> r.ok, error |-> r.error, removed |-> r.keys]
        /\ UNCHANGED <<backendVars, dbVars, clock, _event_to_class_map,
                       inflight>>

NextOutline ==
    \/ \E i \in DOMAIN GroupNames, criteria_data \in OutlineCriteriaLists :
            /\ NoGroupNamed(GroupNames[i])
            /\ CreateGroup(GroupNames[i], "", CourseScope, criteria_data)
    \/ \E g \in GroupIds : EvaluateGroup(g)
    \/ \E flag_enabled \in BOOLEAN, load \in BOOLEAN, u \in Users,
          full_course_outline \in Outlines :
            ProcessOutline(flag_enabled, load, u, full_course_outline)

SpecOutline == Init /\ [][NextOutline]_vars

\* The groups the processor knows the user to be in: those the scheme
\* reports once the data is loaded with the flag on, none otherwise.
UserGroupsOf(op) ==
    IF op.loaded /\ op.flag_enabled THEN ActiveEnabledGroups(op.user) ELSE {}

\* The item's restriction for the user-group partition is non-empty and
\* contains none of the user's groups.
ExcludesUser(item, op) ==
    /\ USER_GROUP_PARTITION_ID \in DOMAIN item.user_partition_groups
    /\ item.user_partition_groups[USER_GROUP_PARTITION_ID] # {}
    /\ item.user_partition_groups[USER_GROUP_PARTITION_ID]
            \cap UserGroupsOf(op) = {}

ExpectedRemoved(op) ==
    IF ~op.flag_enabled THEN {}
    ELSE {s.usage_key : s \in {t \in Range(op.outline.sections) :
                                    ExcludesUser(t, op)}}
         \cup UNION {{q.usage_key : q \in {p \in Range(s.sequences) :
                                    ExcludesUser(s, op) \/ ExcludesUser(p, op)}} :
                     s \in Range(op.outline.sections)}

\* C31: usage_keys_to_remove returns exactly every section whose
\* user-group restriction is non-empty and contains none of the user's
\* groups, all sequences of such a section, and every sequence whose own
\* restriction excludes the user; nothing is removed when the flag is
\* disabled.  (Refuted: for a user whose data was loaded and who is in no
\* group the call raises TypeError on the first restricted item.)
C31_RemovesExactlyExcludedContent ==
    (lastOp.op = "usage_keys_to_remove") =>
        /\ lastOp.ok
        /\ lastOp.removed = ExpectedRemoved(lastOp)

(***************************************************************************)
(* SpecStateChanged: check_if_membership_state_changed is applied to       *)
(* payloads and configurations; the configuration dict lists its keys in   *)
(* any order.                                                              *)
(***************************************************************************)
StateChangedConfigs ==
    {EmptyDict}
        \cup {[is_staff |-> b] : b \in BOOLEAN}
        \cup {[mode |-> m] : m \in EnrollmentModes}
        \cup {[enrollment_date |-> d] : d \in {NoneTime, 1}}
        \cup {[mode |-> m, enrollment_date |-> d] :
                m \in EnrollmentModes, d \in {NoneTime, 1}}

StateChangedPayloads ==
    {[id |-> 1]}
        \cup {[id |-> 1, is_staff |-> b] : b \in BOOLEAN}
        \cup {[id |-> 1, mode |-> m] : m \in EnrollmentModes}
        \cup {[id |-> 1, enrollment_date |-> d] : d \in {NoneTime, 1}}
        \cup {[id |-> 1, mode |-> m, enrollment_date |-> d] :
                m \in EnrollmentModes, d \in {NoneTime, 1}}

\* The orders in which a dict with the given key set can list its keys.
KeyOrders(keys) ==
    {order \in [1..Cardinality(keys) -> keys] :
        \A i, j \in 1..Cardinality(keys) : order[i] = order[j] => i = j}

CheckStateChanged(event_data, criterion_config, keys) ==
    /\ lastOp' = [op |-> "check_if_membership_state_changed",
                  event_data |-> event_data,
                  criterion_config |-> criterion_config,
                  keys |-> keys,
                  result |-> StateChangedFrom(event_data, criterion_config,
                                              keys)]
    /\ UNCHANGED <<backendVars, dbVars, clock, _event_to_class_map, inflight>>

NextStateChanged ==
    \E event_data \in StateChangedPayloads,
       criterion_config \in StateChangedConfigs :
        \E keys \in KeyOrders(DOMAIN criterion_config) :
            CheckStateChanged(event_data, criterion_config, keys)

SpecStateChanged == Init /\ [][NextStateChanged]_vars

IsStateChangedCheck(op) == op.op = "check_if_membership_state_changed"

EveryKeyPresent(op) ==
    \A k \in DOMAIN op.criterion_config : k \in DOMAIN op.event_data

SomeValueDiffers(op) ==
    \E k \in DOMAIN op.criterion_config :
        k \in DOMAIN op.event_data
            /\ op.event_data[k] # op.criterion_config[k]

\* C32 as stated: 'not changed' whenever some configuration key is absent
\* from the payload, 'changed' when every key is present and some value
\* differs, 'not changed' when every key is present and equal, and the
\* same result for every order in which the keys are visited.
C32_AbsentKeyMeansNotChanged ==
    IsStateChangedCheck(lastOp) =>
        /\ ~EveryKeyPresent(lastOp) => ~lastOp.result
        /\ (EveryKeyPresent(lastOp) /\ SomeValueDiffers(lastOp))
                => lastOp.result
        /\ (EveryKeyPresent(lastOp) /\ ~SomeValueDiffers(lastOp))
                => ~lastOp.result
        /\ \A order \in KeyOrders(DOMAIN lastOp.criterion_config) :
                StateChangedFrom(lastOp.event_data, lastOp.criterion_config,
                                 order) = lastOp.result

\* C32: check_if_membership_state_changed reports 'changed' exactly when
\* some configuration key differs from the payload and every key the
\* configuration lists before it is present in the payload; so it reports
\* 'changed' when every key is present and some value differs, 'not
\* changed' when every key is present and equal (the empty configuration
\* included) and when the first key that is absent or different is an
\* absent one, and the result is the same for every key order whenever
\* every key is present.
C32_ChangedAtFirstDecisiveKey ==
    IsStateChangedCheck(lastOp) =>
        /\ lastOp.result =
            \E n \in DOMAIN lastOp.keys :
                /\ lastOp.keys[n] \in DOMAIN lastOp.event_data
                /\ lastOp.event_data[lastOp.keys[n]]
                        # lastOp.criterion_config[lastOp.keys[n]]
                /\ \A m \in 1..(n - 1) :
                        lastOp.keys[m] \in DOMAIN lastOp.event_data
        /\ (EveryKeyPresent(lastOp) /\ SomeValueDiffers(lastOp))
                => lastOp.result
        /\ (EveryKeyPresent(lastOp) /\ ~SomeValueDiffers(lastOp))
                => ~lastOp.result
        /\ EveryKeyPresent(lastOp) =>
            \A order \in KeyOrders(DOMAIN lastOp.criterion_config) :
                StateChangedFrom(lastOp.event_data, lastOp.criterion_config,
                                 order) = lastOp.result

\* A configuration of two keys was checked against a payload that lacks
\* the second and differs on the first: 'changed' was reported.
C32_Witness ==
    /\ IsStateChangedCheck(lastOp)
    /\ Len(lastOp.keys) = 2
    /\ lastOp.keys[2] \notin DOMAIN lastOp.event_data
    /\ lastOp.keys[1] \in DOMAIN lastOp.event_data
    /\ lastOp.event_data[lastOp.keys[1]]
            # lastOp.criterion_config[lastOp.keys[1]]
    /\ lastOp.result

(***************************************************************************)
(* SpecNotEqual: the platform holds users who logged in at various times   *)
(* or never; a group with one last_login criterion, EQUAL or NOT_EQUAL, is *)
(* created in the instance scope and evaluated.                            *)
(***************************************************************************)
NotEqualCriteriaLists ==
    {<<Criterion("last_login", o, [days |-> days])>> :
        o \in {"=", "!="}, days \in 0..MaxDays}

NextNotEqual ==
    \/ \E criteria_data \in NotEqualCriteriaLists :
            /\ NoGroupNamed(GroupNames[1])
            /\ CreateGroup(GroupNames[1], "", InstanceScope, criteria_data)
    \/ \E g \in GroupIds : EvaluateGroup(g)

SpecNotEqual == InitLastLogin /\ [][NextNotEqual]_vars

\* The group has exactly one criterion, a last_login criterion with the
\* given operator.
OnlyLastLogin(g, operator) ==
    /\ Len(group_criteria(DB, g)) = 1
    /\ group_criteria(DB, g)[1].criterion_type = "last_login"
    /\ group_criteria(DB, g)[1].criterion_operator = operator

\* C33: a last_login criterion with operator NOT_EQUAL contributes to the
\* membership the backend users whose last_login is not exactly now - N
\* days: the complement, within the backend users, of the result for
\* EQUAL with the same configuration.  (Refuted: nothing negates the exact
\* lookup, so NOT_EQUAL yields the same members as EQUAL.)
C33_NotEqualIsComplementOfEqual ==
    (/\ lastOp.op = "evaluate_and_update_membership_for_group"
     /\ lastOp.ok
     /\ OnlyLastLogin(lastOp.group_id, "!="))
        => Members(DB, lastOp.group_id) =
            get_users(Backend, ScopeObject(InstanceScope))
                \ evaluate(LastLoginInstance("=",
                        group_criteria(DB, lastOp.group_id)[1]
                            .criterion_config.days),
                    Backend, clock).users

\* C34: every reconciliation creates the group's membership records anew:
\* after evaluate_and_update_membership_for_group(g) every member of g,
\* the users who were members before the call included, has a joined-at
\* timestamp no earlier than the start of the reconciliation, and g's
\* last_membership_change is the time of the reconciliation even when the
\* member set did not change.
C34_ReconciliationRefreshesJoinedAt ==
    [][(lastOp'.op = "evaluate_and_update_membership_for_group" /\ lastOp'.ok)
        => /\ \A m \in memberships' :
                m.group = lastOp'.group_id
                    => m.joined_at >= clock /\ m.joined_at = clock'
           /\ groups'[lastOp'.group_id].last_membership_change >= clock
           /\ groups'[lastOp'.group_id].last_membership_change = clock'
      ]_vars

\* After time has passed a group was reconciled whose member set did not
\* change: its members, all of them members before, carry the time of the
\* reconciliation, and so does the group's marker.
C34_Witness ==
    /\ lastOp.op = "evaluate_and_update_membership_for_group" /\ lastOp.ok
    /\ clock > 0
    /\ lastOp.before # {}
    /\ lastOp.before = Members(DB, lastOp.group_id)
    /\ \A m \in usergroupmembership_set(DB, lastOp.group_id) :
            m.joined_at = clock
    /\ groups[lastOp.group_id].last_membership_change = clock

(***************************************************************************)
(* SpecEnumerate: the subscription declarations are enumerated again       *)
(* (apps.py ready(), a test's setUpTestData) while groups are created and  *)
(* evaluated, staff flags change and staff-status events are processed.    *)
(***************************************************************************)
MaxEnumerations == 3

\* BaseCriterionType.get_all_updated_by_events(), called on the class whose
\* map already holds the entries of the earlier calls.
EnumerateEvents ==
    /\ \A e \in DOMAIN _event_to_class_map :
            Len(_event_to_class_map[e])
                < MaxEnumerations * Len(get_all_updated_by_events(<<>>)[e])
    /\ _event_to_class_map' = get_all_updated_by_events(_event_to_class_map)
    /\ lastOp' = [op |-> "BaseCriterionType.get_all_updated_by_events"]
    /\ UNCHANGED <<backendVars, dbVars, clock, inflight>>

NextEnumerate ==
    \/ EnumerateEvents
    \/ \E u \in Users : SetStaff(u)
    \/ \E i \in DOMAIN GroupNames, criteria_data \in DeleteCriteriaLists :
            /\ NoGroupNamed(GroupNames[i])
            /\ CreateGroup(GroupNames[i], "", CourseScope, criteria_data)
    \/ \E g \in GroupIds : EvaluateGroup(g)
    \/ \E u \in Users, staff \in BOOLEAN :
            HandleEvent("USER_STAFF_STATUS_CHANGED",
                        [id |-> u, is_staff |-> staff])

SpecEnumerate == Init /\ [][NextEnumerate]_vars

\* How many times a list holds a value.
Count(x, list) == Cardinality({i \in DOMAIN list : list[i] = x})

\* The type names of the subclasses that declare the event.
DeclaringTypes(event) ==
    {ClassCriterionType(Subclasses[i]) :
        i \in {j \in DOMAIN Subclasses :
                event \in Range(updated_by_events(Subclasses[j]))}}

OrderCriteria == {StaffFalse, StaffTrue, ManualTwo, LoginNewer}

OrderCriteriaLists ==
    {<<a, b>> : a \in OrderCriteria, b \in OrderCriteria}
        \cup {<<a, b, c>> : a \in OrderCriteria, b \in OrderCriteria,
                            c \in OrderCriteria}

\* create_group_with_criteria for a list of up to three criteria.
CreateGroupOfThree(name, description, scope, criteria_data) ==
    \E r \in {create_group_with_criteria(DB, name, description, scope,
                                        criteria_data, clock)} :
        /\ NoGroupNamed(name)
        /\ Commit(r.db)
        /\ lastOp' = [op |-> "create_group_with_criteria",
                      name |-> name, scope |-> scope,
                      criteria |-> criteria_data,
                      user_group |-> IF r.ok THEN r.user_group ELSE 0,
                      ok |-> r.ok, error |-> r.error]
        /\ UNCHANGED <<backendVars, clock, _event_to_class_map, inflight>>

NextOrder ==
    \/ \E u \in Users : SetStaff(u)
    \/ Login(NumUsers)
    \/ \E criteria_data \in OrderCriteriaLists :
            CreateGroupOfThree(GroupNames[1], "", CourseScope, criteria_data)
    \/ \E g \in GroupIds : EvaluateGroup(g)

SpecOrder == Init /\ [][NextOrder]_vars

\* The reducer applied to the results of the group's criteria taken in the
\* given order (a permutation of their positions in criteria.all()).
MembersInOrder(g, order) ==
    LET cs == criteria_all(DB, g)
        results == [i \in DOMAIN cs |->
                        evaluate(criterion_instance(DB, cs[order[i]]),
                                 Backend, clock)]
    IN  Intersect(results[1].users, Tail(results))

\* C36: the membership computed for a group does not depend on the order
\* in which its criteria are evaluated and intersected: for every
\* permutation of the group's criteria the reducer yields the member set
\* that evaluate_and_update_membership_for_group stored.
C36_OrderDoesNotMatter ==
    (/\ lastOp.op = "evaluate_and_update_membership_for_group"
     /\ lastOp.ok
     /\ criteria_all(DB, lastOp.group_id) # <<>>)
        => \A order \in KeyOrders(DOMAIN criteria_all(DB, lastOp.group_id)) :
                MembersInOrder(lastOp.group_id, order)
                    = Members(DB, lastOp.group_id)

\* A group with three criteria, two of which match different users, was
\* evaluated and has a member.
C36_Witness ==
    /\ lastOp.op = "evaluate_and_update_membership_for_group" /\ lastOp.ok
    /\ Len(criteria_all(DB, lastOp.group_id)) = 3
    /\ \E i, j \in 1..3 :
        Matches(DB, criteria_all(DB, lastOp.group_id)[i], Backend, clock)
            # Matches(DB, criteria_all(DB, lastOp.group_id)[j], Backend, clock)
    /\ Members(DB, lastOp.group_id) # {}

\* C37: in every reachable state there is at most one membership record
\* per (user, group) pair, under any sequence or interleaving of group
\* evaluations, batch evaluations, event processing and collection
\* evaluations.  (Refuted for overlapping evaluations of one group: the
\* table has no uniqueness constraint on the pair and each call deletes
\* only the rows committed when its delete runs.)
C37_OneMembershipPerPair ==
    \A m, n \in memberships :
        (m.user = n.user /\ m.group = n.group) => m = n

(***************************************************************************)
(* SpecEventTwice: groups with one criterion or with two criteria of the   *)
(* type subscribed to staff-status events are created and evaluated,       *)
(* staff flags change, and staff-status events are processed.              *)
(***************************************************************************)
EventTwiceCriteriaLists ==
    {<<StaffFalse>>, <<StaffFalse, StaffFalse>>, <<StaffFalse, StaffTrue>>}

NextEventTwice ==
    \/ \E u \in Users : SetStaff(u)
    \/ \E i \in DOMAIN GroupNames, criteria_data \in EventTwiceCriteriaLists :
            /\ NoGroupNamed(GroupNames[i])
            /\ CreateGroup(GroupNames[i], "", CourseScope, criteria_data)
    \/ \E g \in GroupIds : EvaluateGroup(g)
    \/ \E u \in Users, staff \in BOOLEAN :
            HandleEvent("USER_STAFF_STATUS_CHANGED",
                        [id |-> u, is_staff |-> staff])

SpecEventTwice == Init /\ [][NextEventTwice]_vars

\* C38: while one event is processed each group is re-evaluated at most
\* once, even when the group has several criteria whose types are affected
\* by the event, both when the subject has no memberships and when they
\* have some.  (Refuted for a subject without memberships: the query that
\* lists the groups joins the criteria and is not made distinct, so a
\* group is submitted once per affected criterion.)
C38_EachGroupReevaluatedOnce ==
    IsEvent(lastOp) =>
        \A g \in DOMAIN groups :
            /\ Count(g, lastOp.calls) <= 1
            /\ Count(g, lastOp.groups_to_update) <= 1

(***************************************************************************)
(* Repeating create_group_with_criteria for a group that exists.           *)
(***************************************************************************)
RepeatCriteriaLists ==
    {<<>>, <<StaffFalse>>, <<ManualTwo>>, <<StaffFalse, LoginOlder>>}

NextRepeat ==
    \/ \E u \in Users : SetStaff(u)
    \/ \E i \in DOMAIN GroupNames, scope \in {CourseScope, OrganizationScope},
          cd \in RepeatCriteriaLists :
            CreateGroup(GroupNames[i], "", scope, cd)
    \/ \E g \in GroupIds : EvaluateGroup(g)

SpecRepeat == Init /\ [][NextRepeat]_vars

\* create_group_with_criteria has just succeeded for a name, description
\* and scope that a group already had before the call.
RepeatedCreate ==
    /\ lastOp'.op = "create_group_with_criteria"
    /\ lastOp'.ok
    /\ \E g \in DOMAIN groups :
        /\ groups[g].name = lastOp'.name
        /\ groups[g].description = ""
        /\ groups[g].scope = ScopeObject(lastOp'.scope)

\* C39: create_group_with_criteria for a (name, description, scope) that
\* already exists creates no second group: it returns the existing group,
\* whose stored criteria are the ones it had followed by one row per entry
\* of the new call, so an identical repeated call leaves every criterion
\* of the group stored twice.
C39_ExistingGroupGainsCriteria ==
    [][RepeatedCreate =>
        LET g == lastOp'.user_group
            before == SelectSeq(criteria, LAMBDA c : c.user_group = g)
            after == SelectSeq(criteria', LAMBDA c : c.user_group = g)
            added == SubSeq(after, Len(before) + 1, Len(after))
        IN  /\ g \in DOMAIN groups
            /\ groups[g].name = lastOp'.name
            /\ groups[g].scope = ScopeObject(lastOp'.scope)
            /\ groups' = groups
            /\ next_group_id' = next_group_id
            /\ Len(after) = Len(before) + Len(lastOp'.criteria)
            /\ SubSeq(after, 1, Len(before)) = before
            /\ \A i \in DOMAIN lastOp'.criteria :
                /\ added[i].criterion_operator
                    = lastOp'.criteria[i].criterion_operator
                /\ added[i].criterion_config
                    = ConfigModel(
                        get_criterion_class_by_type(
                            lastOp'.criteria[i].criterion_type),
                        lastOp'.criteria[i].criterion_config)
                /\ added[i].criterion_type
                    = ClassCriterionType(get_criterion_class_by_type(
                        lastOp'.criteria[i].criterion_type))
            /\ \A c \in Range(criteria') :
                c.user_group # g => Count(c, criteria') = Count(c, criteria)
            /\ added = before =>
                \A i \in DOMAIN before :
                    Count(before[i], after) = 2 * Count(before[i], before)
      ]_vars

\* The only group holds the same criterion twice after a call that gave the
\* criterion once.
C39_Witness ==
    /\ lastOp.op = "create_group_with_criteria" /\ lastOp.ok
    /\ Len(lastOp.criteria) = 1
    /\ DOMAIN groups = {lastOp.user_group}
    /\ \E c \in {criteria[i] : i \in DOMAIN criteria} :
        SelectSeq(criteria, LAMBDA x : x.user_group = lastOp.user_group)
            = <<c, c>>
====
